---------------------------- MODULE Spec2Model ----------------------------
(***************************************************************************)
(* Model of the IPMI FRU codec of this repository.                         *)
(*                                                                         *)
(*   - src/lib/fruit/utils.py          checksum, div8, the ucs2le and      *)
(*                                     packed_ascii codecs                 *)
(*   - src/lib/fruit/specification.py  FRU_SPEC, HEX2BCD, BCD2HEX          *)
(*   - src/lib/fruit/types.py          the StrWithEncoding class tree      *)
(*   - src/lib/fruit/encoder.py        Encoder                             *)
(*   - src/lib/fruit/decoder.py        Decoder                             *)
(*   - src/lib/fruit/logging.py        Logger, StdErrLogger                *)
(*   - src/fruit.py                    the stand-alone FruEncoder and      *)
(*                                     FruDecoder                          *)
(*                                                                         *)
(* Bytes are integers 0..255, byte strings are sequences of them, text is  *)
(* a sequence of code points.  A Python exception is a record with the     *)
(* exception class in "exc" and the message's fixed part in "msg".         *)
(***************************************************************************)
EXTENDS Integers, Sequences, FiniteSets, TLC

VARIABLES
    pk_pc,      \* packed_ascii session: "text", "encoded", "decoded"
    pk_text,    \* the text handed to Packed.encode
    pk_enc,     \* what Packed.encode returned (or raised)
    pk_out,     \* what Packed.decode returned for pk_enc.bytes
    phase,      \* codec session: "init", "encoded", "decoding", "legacy"
    config,     \* the value tree handed to the last encode call
    res,        \* what that call returned or raised: [exc, msg, bytes, log]
    buf,        \* the byte buffer handed to decode
    defect,     \* what was done to the encoder's bytes to get buf: [kind, area, n]
    sink,       \* the policy of the decode call's logger: "strict" or "tolerant"
    dec,        \* the state of the decode call
    dec1,       \* the finished first decode call, once its tree was encoded again
    legacy,     \* the state FruEncoder.encode of fruit.py ended in
    again,      \* a second encode call on the same FruEncoder: [tree, r], r as legacy
    ldec,       \* what FruDecoder.decode of fruit.py did with buf under the policy sink
    oem,        \* an OEM-list decode loop, turn by turn: [impl, input, pc, acc, n, last, used]
    calls,      \* two calls of the library that run interleaved, each [kind, ...]
    engines,    \* lang and msgprefix of the Decoder or Encoder objects of those calls
    fn          \* one entry codec applied to one input: [f, pc, input, enc, dec]

pkvars == <<pk_pc, pk_text, pk_enc, pk_out>>
lvars  == <<legacy, again, ldec>>
cvars  == <<phase, config, res, buf, defect, sink, dec, dec1, lvars>>
ovars  == <<oem, calls, engines, fn>>

(***************************************************************************)
(* Sequence helpers                                                        *)
(***************************************************************************)
RECURSIVE SumSeq(_)
SumSeq(b) ==
    IF b = <<>> THEN 0
    ELSE IF Len(b) = 1 THEN b[1]
    ELSE SumSeq(SubSeq(b, 1, Len(b) \div 2))
         + SumSeq(SubSeq(b, Len(b) \div 2 + 1, Len(b)))

\* Python slice b[lo:hi] for 0 <= lo, with hi clipped to len(b) (0-based, hi exclusive).
Slice(b, lo, hi) ==
    LET h == IF hi > Len(b) THEN Len(b) ELSE hi
    IN  IF lo >= h THEN <<>> ELSE SubSeq(b, lo + 1, h)

\* Python slice b[lo:]
From(b, lo) == Slice(b, lo, Len(b))

Pow2(n) == 2 ^ n

Zeros(n) == [i \in 1..n |-> 0]

(***************************************************************************)
(* utils.py: checksum, div8                                                *)
(***************************************************************************)
\* checksum as the plain sum of the bytes, not the value that makes the sum 0.
checksum_sum(b) == SumSeq(b) % 256

checksum(b) == (256 * Len(b) - SumSeq(b)) % 256

\* div8 asserts divisibility; ok = FALSE stands for the AssertionError.
div8(i) == [ok |-> i % 8 = 0, v |-> i \div 8]

(***************************************************************************)
(* utils.py: Packed (packed_ascii codec)                                   *)
(***************************************************************************)
\* One iteration of the loop of Packed.encode on code point ch, with the
\* strict error handler: st = [ok, ret, bits].
PackedEncodeChar(st, ch) ==
    LET c == ch - 32 IN
    IF c < 0 \/ c >= Pow2(6)
    THEN [st EXCEPT !.ok = FALSE]
    ELSE
      LET n    == Len(st.ret)
          ret1 == IF st.bits > 0
                  THEN [st.ret EXCEPT ![n] = @ + ((c * Pow2(st.bits)) % 256)]
                  ELSE st.ret
          c1   == IF st.bits > 0 THEN c \div Pow2(8 - st.bits) ELSE c
          ret2 == IF st.bits # 2 THEN Append(ret1, c1) ELSE ret1
      IN  [ok |-> TRUE, ret |-> ret2, bits |-> (st.bits + 6) % 8]

RECURSIVE PackedEncodeLoop(_, _, _)
PackedEncodeLoop(text, i, st) ==
    IF i > Len(text) \/ ~st.ok THEN st
    ELSE PackedEncodeLoop(text, i + 1, PackedEncodeChar(st, text[i]))

\* Packed.encode(text): [ok, bytes]; ok = FALSE is the UnicodeEncodeError
\* 'ordinal not in range(32, 96)'.
PackedEncode(text) ==
    LET st == PackedEncodeLoop(text, 1, [ok |-> TRUE, ret |-> <<>>, bits |-> 0])
    IN  [ok |-> st.ok, bytes |-> IF st.ok THEN st.ret ELSE <<>>]

\* The inner loop of Packed.decode as "while bits > 6": a character that is
\* complete with the last byte is not taken out.
RECURSIVE PackedDrainLate(_)
PackedDrainLate(st) ==
    IF st.bits <= 6 THEN st
    ELSE PackedDrainLate([ret    |-> Append(st.ret, (st.bitval % Pow2(6)) + 32),
                          bitval |-> st.bitval \div Pow2(6),
                          bits   |-> st.bits - 6])

\* The inner "while bits >= 6" loop of Packed.decode.
RECURSIVE PackedDrain(_)
PackedDrain(st) ==
    IF st.bits < 6 THEN st
    ELSE PackedDrain([ret    |-> Append(st.ret, (st.bitval % Pow2(6)) + 32),
                      bitval |-> st.bitval \div Pow2(6),
                      bits   |-> st.bits - 6])

RECURSIVE PackedDecodeLoop(_, _, _)
PackedDecodeLoop(data, pos, st) ==
    IF pos > Len(data) THEN st
    ELSE PackedDecodeLoop(data, pos + 1,
            PackedDrain([ret    |-> st.ret,
                         bitval |-> st.bitval + data[pos] * Pow2(st.bits),
                         bits   |-> st.bits + 8]))

\* Packed.decode(data): the decoded text.
PackedDecode(data) ==
    PackedDecodeLoop(data, 1, [ret |-> <<>>, bitval |-> 0, bits |-> 0]).ret

(***************************************************************************)
(* utils.py: Ucs2Le (ucs2le codec), and Python's latin1 codec              *)
(***************************************************************************)
RECURSIVE Ucs2LeEncodeLoop(_, _)
Ucs2LeEncodeLoop(text, i) ==
    IF i > Len(text) THEN <<>>
    ELSE <<text[i] % 256, text[i] \div 256>> \o Ucs2LeEncodeLoop(text, i + 1)

\* Ucs2Le.encode(text) with the strict handler: a code point >= 65536 raises.
Ucs2LeEncode(text) ==
    IF \E i \in 1..Len(text) : text[i] >= 65536
    THEN [ok |-> FALSE, bytes |-> <<>>]
    ELSE [ok |-> TRUE, bytes |-> Ucs2LeEncodeLoop(text, 1)]

\* Ucs2Le.decode(data) for data of even length (the only use, see u16bytes).
Ucs2LeDecode(data) ==
    [i \in 1..(Len(data) \div 2) |-> data[2 * i - 1] + data[2 * i] * 256]

\* codecs.encode(text, 'latin1'): a code point >= 256 raises.
Latin1Encode(text) ==
    IF \E i \in 1..Len(text) : text[i] >= 256
    THEN [ok |-> FALSE, bytes |-> <<>>]
    ELSE [ok |-> TRUE, bytes |-> text]

\* codecs.decode(data, 'latin1'): byte n is code point n.
Latin1Decode(data) == data

(***************************************************************************)
(* binascii.b2a_hex / a2b_hex over code points                             *)
(***************************************************************************)
HexDigit(n) == IF n < 10 THEN 48 + n ELSE 87 + n

\* The value of hexadecimal digit c, -1 when c is none.
HexVal(c) ==
    IF c >= 48 /\ c <= 57 THEN c - 48
    ELSE IF c >= 97 /\ c <= 102 THEN c - 87
    ELSE IF c >= 65 /\ c <= 70 THEN c - 55
    ELSE -1

RECURSIVE B2aHexLoop(_, _)
B2aHexLoop(data, i) ==
    IF i > Len(data) THEN <<>>
    ELSE <<HexDigit(data[i] \div 16), HexDigit(data[i] % 16)>> \o B2aHexLoop(data, i + 1)

b2a_hex(data) == B2aHexLoop(data, 1)

\* a2b_hex raises on an odd number of digits and on a non-hexadecimal digit.
a2b_hex(text) ==
    IF Len(text) % 2 # 0 \/ \E i \in 1..Len(text) : HexVal(text[i]) < 0
    THEN [ok |-> FALSE, bytes |-> <<>>]
    ELSE [ok |-> TRUE,
          bytes |-> [i \in 1..(Len(text) \div 2) |->
                        16 * HexVal(text[2 * i - 1]) + HexVal(text[2 * i])]]

(***************************************************************************)
(* specification.py: HEX2BCD, BCD2HEX (str.translate tables)               *)
(***************************************************************************)
\* HEX2BCD: 'a' -> ' ', 'b' -> '-', 'c' -> '.', 'd','e','f' -> circled letters.
\* HEX2BCD with the digit d shown as the dot of the digit c.
HEX2BCDDotTwice(c) ==
    CASE c = 97  -> 32
      [] c = 98  -> 45
      [] c = 99  -> 46
      [] c = 100 -> 46
      [] c = 101 -> 9402
      [] c = 102 -> 9403
      [] OTHER   -> c

HEX2BCD(c) ==
    CASE c = 97  -> 32
      [] c = 98  -> 45
      [] c = 99  -> 46
      [] c = 100 -> 9401
      [] c = 101 -> 9402
      [] c = 102 -> 9403
      [] OTHER   -> c

\* BCD2HEX: the reverse of HEX2BCD, with the letters a-f and A-F themselves
\* mapped to the circled letters (so that a2b_hex rejects them).
BCD2HEX(c) ==
    CASE c = 32   -> 97
      [] c = 45   -> 98
      [] c = 46   -> 99
      [] c = 9401 -> 100
      [] c = 9402 -> 101
      [] c = 9403 -> 102
      [] c >= 97 /\ c <= 102 -> 9401 + (c - 97)
      [] c >= 65 /\ c <= 70  -> 9401 + (c - 65)
      [] OTHER    -> c

Translate(text, Table(_)) == [i \in 1..Len(text) |-> Table(text[i])]

\* str.upper() on the code points the model uses: a-z and the Latin-1 lower
\* case letters map to their capitals, every other code point to itself.
UpperChar(c) ==
    IF (c >= 97 /\ c <= 122) \/ (c >= 224 /\ c <= 254 /\ c # 247) THEN c - 32 ELSE c

(***************************************************************************)
(* types.py: values of the value tree                                      *)
(*                                                                         *)
(* A field value is a record [t, cls, n, s, items]: t is "none", "int",    *)
(* "datetime" (n: seconds since the Unix epoch), "str" (s: the text, cls:  *)
(* "str" for a plain string, else the StrWithEncoding subclass) or "list". *)
(* An area value is [t, m, s]: t is "dict" (m: field name -> value) or     *)
(* "str" (s: the text).                                                    *)
(***************************************************************************)
NoneV      == [t |-> "none", cls |-> "NoneType", n |-> 0, s |-> <<>>, items |-> <<>>]
IntV(n)    == [t |-> "int", cls |-> "int", n |-> n, s |-> <<>>, items |-> <<>>]
DateV(sec) == [t |-> "datetime", cls |-> "datetime", n |-> sec, s |-> <<>>, items |-> <<>>]
StrV(cls, s) == [t |-> "str", cls |-> cls, n |-> 0, s |-> s, items |-> <<>>]
ListV(items) == [t |-> "list", cls |-> "list", n |-> 0, s |-> <<>>, items |-> items]

EmptyMap == [k \in {} |-> NoneV]
DictA(m) == [t |-> "dict", m |-> m, s |-> <<>>]
TextA(s) == [t |-> "str", m |-> EmptyMap, s |-> s]

\* dict.get(k, None)
Get(m, k) == IF k \in DOMAIN m THEN m[k] ELSE NoneV

\* isinstance(v, StrWithEncoding)
StrWithEncodingClasses ==
    {"StrWithEncoding", "Hexadecimal", "BcdString", "PackedAscii", "Latin1String",
     "ProperLatin1String", "MisusedLatin1String", "U16String", "ProperU16String",
     "MisusedU16String"}

\* The class attribute "encoding" as each class of types.py inherits it;
\* "None" is Python's None (StrWithEncoding.encoding).
EncodingOf(cls) ==
    CASE cls = "Hexadecimal"  -> "hex"
      [] cls = "BcdString"    -> "bcd"
      [] cls = "PackedAscii"  -> "packed"
      [] cls = "Latin1String" -> "latin1"
      [] cls \in {"U16String", "ProperU16String", "MisusedU16String"} -> "ucs2le"
      [] OTHER -> "None"

(***************************************************************************)
(* specification.py: FRU_SPEC                                              *)
(***************************************************************************)
ChassisType(name) == [kind |-> "ChassisType", name |-> name, minvalue |-> 1,
                      maxvalue |-> 32, default |-> 2, use_lang |-> FALSE]
Lang(name)   == [kind |-> "Lang", name |-> name, minvalue |-> 0,
                 maxvalue |-> 136, default |-> 0, use_lang |-> FALSE]
Date(name)   == [kind |-> "Date", name |-> name, minvalue |-> 0,
                 maxvalue |-> 0, default |-> 0, use_lang |-> FALSE]
L1Str(name)  == [kind |-> "L1Str", name |-> name, minvalue |-> 0,
                 maxvalue |-> 0, default |-> 0, use_lang |-> FALSE]
U16Str(name) == [kind |-> "U16Str", name |-> name, minvalue |-> 0,
                 maxvalue |-> 0, default |-> 0, use_lang |-> TRUE]
OemStrList(name) == [kind |-> "OemStrList", name |-> name, minvalue |-> 0,
                     maxvalue |-> 0, default |-> 0, use_lang |-> FALSE]

AreaByte(name, value, mandatory, virtual) ==
    [kind |-> "AreaByte", name |-> name, value |-> value, mandatory |-> mandatory,
     virtual |-> virtual, entries |-> <<>>]
InternalUse(name) ==
    [kind |-> "InternalUse", name |-> name, value |-> 0, mandatory |-> FALSE,
     virtual |-> FALSE, entries |-> <<>>]
InfoTable(name, entries) ==
    [kind |-> "InfoTable", name |-> name, value |-> 0, mandatory |-> FALSE,
     virtual |-> FALSE, entries |-> entries]
MultiValue(name) ==
    [kind |-> "MultiValue", name |-> name, value |-> 0, mandatory |-> FALSE,
     virtual |-> FALSE, entries |-> <<>>]

FRU_EPOCH_SEC == 820454400

FRU_SPEC == <<
    AreaByte("version", 1, TRUE, TRUE),
    InternalUse("internal"),
    InfoTable("chassis", <<
        ChassisType("type"),
        L1Str("partno"),
        L1Str("serial"),
        OemStrList("oem") >>),
    InfoTable("board", <<
        Lang("lang"),
        Date("date"),
        U16Str("manufacturer"),
        U16Str("product"),
        L1Str("serial"),
        U16Str("partno"),
        L1Str("fru"),
        OemStrList("oem") >>),
    InfoTable("product", <<
        Lang("lang"),
        U16Str("manufacturer"),
        U16Str("name"),
        U16Str("model"),
        U16Str("version"),
        L1Str("serial"),
        U16Str("asset"),
        U16Str("fru"),
        OemStrList("oem") >>),
    MultiValue("multi"),
    AreaByte("padding", 0, FALSE, FALSE) >>

\* isinstance(spec, AreaOffset)
IsAreaOffset(spec) == spec.kind \in {"InternalUse", "InfoTable", "MultiValue"}

\* The language values that mean English: "lang in (None, 0, 25)"; the
\* model writes None as -1.
LangNone == -1
English(lang) == lang \in {LangNone, 0, 25}

(***************************************************************************)
(* logging.py: diagnostics.  A diagnostic is [sev, msg, area, field, off]. *)
(***************************************************************************)
\* off is the offset in the buffer of the byte a decoder diagnostic is about
\* (-1 for the encoder's, which are about values).
DiagAt(sev, msg, area, field, off) ==
    [sev |-> sev, msg |-> msg, area |-> area, field |-> field, off |-> off]
Diag(sev, msg, area, field) == DiagAt(sev, msg, area, field, -1)

(***************************************************************************)
(* encoder.py: StrEncoders                                                 *)
(***************************************************************************)
\* What a method of StrEncoders returns: the type code and the bytes of
\* codec result r; ok = FALSE when the codec raises.
StrEncoded(t, r) == [ok |-> r.ok, t |-> t, bytes |-> r.bytes]

\* StrEncoders.<enc>(text): [ok, t, bytes]
StrEncode(enc, text) ==
    CASE enc = "hex"    -> StrEncoded(0, a2b_hex(text))
      [] enc = "bcd"    -> StrEncoded(1, a2b_hex(Translate(text, BCD2HEX)))
      [] enc = "packed" -> StrEncoded(2, PackedEncode(Translate(text, UpperChar)))
      [] enc = "latin1" -> StrEncoded(3, Latin1Encode(text))
      [] enc = "ucs2le" -> StrEncoded(3, Ucs2LeEncode(text))

\* StrEncoders.getencoder(enc) finds an attribute of that name.
HasEncoder(enc) == enc \in {"hex", "bcd", "packed", "latin1", "ucs2le"}

(***************************************************************************)
(* encoder.py: entry encoders.  Each returns [exc, msg, bytes, lang, log]: *)
(* exc = "" for a normal return, lang the encoder's self.lang afterwards.  *)
(***************************************************************************)
EncOk(bytes, lang, log) == [exc |-> "", msg |-> "", bytes |-> bytes, lang |-> lang, log |-> log]
EncRaise(exc, msg, lang, log) == [exc |-> exc, msg |-> msg, bytes |-> <<>>, lang |-> lang, log |-> log]

\* Encoder.encode_byte
encode_byte(prefix, spec, cfg, lang) ==
    LET v == IF cfg.t = "none" THEN IntV(spec.default) ELSE cfg IN
    IF v.t # "int" \/ v.n \notin 0..255
    THEN EncRaise("EncoderError", "only integers in range(256) allowed", lang, <<>>)
    ELSE EncOk(<<v.n>>, lang,
               IF v.n < spec.minvalue \/ v.n > spec.maxvalue
               THEN <<Diag("warning", "value out of bounds", prefix, spec.name)>>
               ELSE <<>>)

\* self.lang = ret[0] of encode_lang, for what encode_byte returned
SetLang(r) == IF r.exc # "" THEN r ELSE [r EXCEPT !.lang = r.bytes[1]]

\* Encoder.encode_lang: encode_byte, then self.lang = ret[0]
encode_lang(prefix, spec, cfg, lang) == SetLang(encode_byte(prefix, spec, cfg, lang))

\* int(round(x / 60)) for the whole number of seconds x: Python 3 rounds a
\* half to the even neighbour.
RoundDiv60(x) ==
    LET q == x \div 60
        r == x % 60
    IN  IF r > 30 \/ (r = 30 /\ q % 2 = 1) THEN q + 1 ELSE q

\* encode_date that writes the most significant byte first.
encode_dateMsbFirst(prefix, spec, cfg, lang) ==
    IF cfg.t \notin {"none", "datetime", "int"}
    THEN EncRaise("EncoderError", "expected date (or integer)", lang, <<>>)
    ELSE
      LET dt == CASE cfg.t = "none"     -> 0
                  [] cfg.t = "datetime" -> RoundDiv60(cfg.n - FRU_EPOCH_SEC)
                  [] cfg.t = "int"      -> cfg.n
      IN  IF dt < 0 THEN EncRaise("EncoderError", "date too low", lang, <<>>)
          ELSE IF dt >= Pow2(24) THEN EncRaise("EncoderError", "date too high", lang, <<>>)
          ELSE EncOk(<<(dt \div 65536) % 256, (dt \div 256) % 256, dt % 256>>, lang, <<>>)

\* Encoder.encode_date
encode_date(prefix, spec, cfg, lang) ==
    IF cfg.t \notin {"none", "datetime", "int"}
    THEN EncRaise("EncoderError", "expected date (or integer)", lang, <<>>)
    ELSE
      LET dt == CASE cfg.t = "none"     -> 0
                  [] cfg.t = "datetime" -> RoundDiv60(cfg.n - FRU_EPOCH_SEC)
                  [] cfg.t = "int"      -> cfg.n
      IN  IF dt < 0 THEN EncRaise("EncoderError", "date too low", lang, <<>>)
          ELSE IF dt >= Pow2(24) THEN EncRaise("EncoderError", "date too high", lang, <<>>)
          ELSE EncOk(<<dt % 256, (dt \div 256) % 256, (dt \div 65536) % 256>>, lang, <<>>)

\* str(n) for an integer n >= 0, as code points.
RECURSIVE Decimal(_)
Decimal(n) == IF n < 10 THEN <<48 + n>> ELSE Append(Decimal(n \div 10), 48 + (n % 10))

\* repr() of a list of strings and integers: ['a', 'b'] (the model's texts
\* hold no quote, backslash or control character).
RECURSIVE ReprItems(_, _)
ReprItems(items, i) ==
    IF i > Len(items) THEN <<>>
    ELSE (IF i > 1 THEN <<44, 32>> ELSE <<>>)
         \o (IF items[i].t = "int" THEN Decimal(items[i].n)
             ELSE <<39>> \o items[i].s \o <<39>>)
         \o ReprItems(items, i + 1)

\* unicode(cfg) for the values the model hands to a string field.
PyStr(v) ==
    CASE v.t = "str"  -> v.s
      [] v.t = "int"  -> IF v.n < 0 THEN <<45>> \o Decimal(-v.n) ELSE Decimal(v.n)
      [] v.t = "list" -> <<91>> \o ReprItems(v.items, 1) \o <<93>>

\* isinstance(cfg, StrWithEncoding)
IsTagged(cfg) == cfg.t = "str" /\ cfg.cls \in StrWithEncodingClasses

\* The encoding encode_str uses: the value's own, else by the language.
StrEncoding(cfg, lang) ==
    IF IsTagged(cfg) THEN EncodingOf(cfg.cls)
    ELSE IF English(lang) THEN "latin1" ELSE "ucs2le"

\* The text encode_str encodes: "" for None, else unicode(cfg).
StrText(cfg) == IF cfg.t = "none" THEN <<>> ELSE PyStr(cfg)

\* The warning of encode_str about an encoding that does not fit the language.
StrEncodingLog(prefix, spec, cfg, lang) ==
    IF IsTagged(cfg) /\ EncodingOf(cfg.cls) = "latin1" /\ ~English(lang)
    THEN <<Diag("warning", "encoding as latin1+ascii, but interpetation will be 16bit unicode",
                prefix, spec.name)>>
    ELSE IF IsTagged(cfg) /\ EncodingOf(cfg.cls) = "ucs2le" /\ English(lang)
    THEN <<Diag("warning", "encoding as 16bit unicode, but interpetation will be latin1+ascii",
                prefix, spec.name)>>
    ELSE <<>>

\* The rest of encode_str once the encoder returned r = [ok, t, bytes].  A
\* first byte that does not fit a byte is bytearray's ValueError.
StrField(prefix, spec, r, selflang, log1) ==
    IF ~r.ok
    THEN EncRaise("EncoderError", "cannot encode string with encoding", selflang, log1)
    ELSE IF Len(r.bytes) > 64
    THEN EncRaise("EncoderError", "too many bytes", selflang, log1)
    ELSE IF r.t * 64 + Len(r.bytes) > 255
    THEN EncRaise("ValueError", "byte must be in range(0, 256)", selflang, log1)
    ELSE EncOk(<<r.t * 64 + Len(r.bytes)>> \o r.bytes, selflang,
               IF r.t * 64 + Len(r.bytes) = 193
               THEN Append(log1, Diag("warning",
                        "single character string may be mis-interpreted as end of area",
                        prefix, spec.name))
               ELSE log1)

\* Encoder.encode_str(spec, cfg, lang); selflang is self.lang, which it
\* leaves alone.
encode_str(prefix, spec, cfg, lang, selflang) ==
    IF ~HasEncoder(StrEncoding(cfg, lang))
    THEN EncRaise("EncoderError", "invalid encoding specified", selflang,
                  StrEncodingLog(prefix, spec, cfg, lang))
    ELSE StrField(prefix, spec, StrEncode(StrEncoding(cfg, lang), StrText(cfg)), selflang,
                  StrEncodingLog(prefix, spec, cfg, lang))

\* encode_l1str with the table's language in place of 0
encode_l1strByLang(prefix, spec, cfg, lang) == encode_str(prefix, spec, cfg, lang, lang)

\* Encoder.encode_l1str
encode_l1str(prefix, spec, cfg, lang) == encode_str(prefix, spec, cfg, 0, lang)

\* Encoder.encode_u16str
encode_u16str(prefix, spec, cfg, lang) == encode_str(prefix, spec, cfg, lang, lang)

\* The "oem%d" names of the items of an OEM list.
OemName(i) == CASE i = 1 -> "oem1" [] i = 2 -> "oem2" [] i = 3 -> "oem3"
                [] i = 4 -> "oem4" [] OTHER -> "oemN"

\* ret += <what the entry's encoder returned>: r after acc, or r's exception.
EncodeJoin(acc, r) ==
    IF r.exc # "" THEN [r EXCEPT !.log = acc.log \o r.log]
    ELSE EncOk(acc.bytes \o r.bytes, r.lang, acc.log \o r.log)

RECURSIVE EncodeOemLoop(_, _, _, _, _)
EncodeOemLoop(prefix, items, i, lang, acc) ==
    IF i > Len(items) \/ acc.exc # "" THEN acc
    ELSE EncodeOemLoop(prefix, items, i + 1, lang,
            EncodeJoin(acc, encode_u16str(prefix, U16Str(OemName(i)), items[i], lang)))

\* Encoder.encode_oem: None is the empty list; a string or a value that is
\* not iterable is refused.
encode_oem(prefix, spec, cfg, lang) ==
    IF cfg.t = "none" THEN EncOk(<<>>, lang, <<>>)
    ELSE IF cfg.t # "list"
    THEN EncRaise("EncoderError", "expected list of strings", lang, <<>>)
    ELSE EncodeOemLoop(prefix, cfg.items, 1, lang, EncOk(<<>>, lang, <<>>))

\* self.entry_encoders[type(entry)](entry, cfg)
EncodeEntry(prefix, spec, cfg, lang) ==
    CASE spec.kind = "ChassisType" -> encode_byte(prefix, spec, cfg, lang)
      [] spec.kind = "Lang"        -> encode_lang(prefix, spec, cfg, lang)
      [] spec.kind = "Date"        -> encode_date(prefix, spec, cfg, lang)
      [] spec.kind = "L1Str"       -> encode_l1str(prefix, spec, cfg, lang)
      [] spec.kind = "U16Str"      -> encode_u16str(prefix, spec, cfg, lang)
      [] spec.kind = "OemStrList"  -> encode_oem(prefix, spec, cfg, lang)

(***************************************************************************)
(* encoder.py: area encoders.  Each returns [exc, msg, bytes, log].        *)
(***************************************************************************)
AreaOk(bytes, log) == [exc |-> "", msg |-> "", bytes |-> bytes, log |-> log]
AreaRaise(exc, msg, log) == [exc |-> exc, msg |-> msg, bytes |-> <<>>, log |-> log]

\* The loop over spec.entries of encode_info_table.
RECURSIVE EncodeEntries(_, _, _, _)
EncodeEntries(spec, m, i, acc) ==
    IF i > Len(spec.entries) \/ acc.exc # "" THEN acc
    ELSE EncodeEntries(spec, m, i + 1,
            EncodeJoin(acc, EncodeEntry(spec.name, spec.entries[i],
                                        Get(m, spec.entries[i].name), acc.lang)))

\* The zero bytes appended until len(ret) % 8 == 7.
PadTo7(n) == (7 - (n % 8)) % 8

\* ret[1] = div8(len(ret) + 1); ret.append(checksum(ret)), for the padded
\* table ret and its length l = div8(len(ret) + 1).
InfoTableSeal(ret, l, log) ==
    IF ~l.ok THEN AreaRaise("AssertionError", "", log)
    ELSE IF l.v > 255 THEN AreaRaise("ValueError", "byte must be in range(0, 256)", log)
    ELSE AreaOk(Append([ret EXCEPT ![2] = l.v], checksum([ret EXCEPT ![2] = l.v])), log)

\* ret.append(0xC1) and the padding, for the bytes of the entries.
InfoTablePad(body, log) ==
    InfoTableSeal(body \o Zeros(PadTo7(Len(body))),
                  div8(Len(body) + PadTo7(Len(body)) + 1), log)

\* The end of encode_info_table for what the loop over the entries gave.
InfoTableClose(r) ==
    IF r.exc # "" THEN AreaRaise(r.exc, r.msg, r.log)
    ELSE InfoTablePad(Append(r.bytes, 193), r.log)

\* Encoder.encode_info_table
encode_info_table(spec, cfg) ==
    IF cfg.t # "dict" \/ spec.kind # "InfoTable"
    THEN AreaRaise("AssertionError", "", <<>>)
    ELSE InfoTableClose(EncodeEntries(spec, cfg.m, 1, EncOk(<<1, 0>>, LangNone, <<>>)))

\* nowhite(s): re.sub("\\s", "", s) on the white space the model uses.
RECURSIVE nowhite(_)
nowhite(s) ==
    IF s = <<>> THEN <<>>
    ELSE IF Head(s) \in {9, 10, 11, 12, 13, 32} THEN nowhite(Tail(s))
    ELSE <<Head(s)>> \o nowhite(Tail(s))

HexPrefix == <<104, 101, 120, 58>>

\* The warning of encode_area_hex about the area's first byte.
AreaHexLog(spec, ret) ==
    IF ret[1] # 1
    THEN <<Diag("warning", "First byte of area should be zero", spec.name, "")>>
    ELSE <<>>

\* The checks of encode_area_hex on the bytes of the hex string.
AreaHexBytes(spec, ret, is_last) ==
    IF Len(ret) = 0 THEN AreaOk(ret, <<>>)
    ELSE IF spec.kind = "MultiValue"
    THEN IF is_last THEN AreaOk(ret, <<>>) ELSE AreaRaise("AssertionError", "", <<>>)
    ELSE IF Len(ret) % 8 # 0
    THEN AreaRaise("EncoderError", "hex data must be padded to multiples of 8 bytes", <<>>)
    ELSE IF Len(ret) # 8 * ret[2]
    THEN AreaRaise("EncoderError", "second byte must be equal to length/8", AreaHexLog(spec, ret))
    ELSE AreaOk(ret,
                IF spec.kind = "InfoTable" /\ SumSeq(ret) % 256 # 0
                THEN Append(AreaHexLog(spec, ret), Diag("warning", "checksum mismatch", spec.name, ""))
                ELSE AreaHexLog(spec, ret))

\* binascii.a2b_hex(cfg[4:]) of encode_area_hex, b = [ok, bytes]
AreaHexParsed(spec, b, is_last) ==
    IF ~b.ok THEN AreaRaise("EncoderError", "failed to interpret hex data", <<>>)
    ELSE AreaHexBytes(spec, b.bytes, is_last)

\* encode_area_hex on the string without its white space
AreaHexText(spec, text, is_last) ==
    IF Slice(text, 0, 4) # HexPrefix
    THEN AreaRaise("EncoderError", "only hex encoding (string starting with 'hex:') supported", <<>>)
    ELSE AreaHexParsed(spec, a2b_hex(From(text, 4)), is_last)

\* Encoder.encode_area_hex
encode_area_hex(spec, cfg, is_last) ==
    IF cfg.t # "str"
    THEN AreaRaise("EncoderError", "unsupported area configuration type", <<>>)
    ELSE AreaHexText(spec, nowhite(cfg.s), is_last)

(***************************************************************************)
(* encoder.py: header and Encoder.encode.  A value tree is a function from *)
(* area names to area values.                                              *)
(***************************************************************************)
\* The byte prepare_header appends for FRU_SPEC[i]: -1 when bytearray.append
\* refuses the caller's value.
HeaderByte(spec, hm) ==
    IF spec.kind # "AreaByte" THEN 0
    ELSE IF spec.virtual \/ spec.name \notin DOMAIN hm THEN spec.value
    ELSE IF hm[spec.name].t = "int" /\ hm[spec.name].n \in 0..255 THEN hm[spec.name].n
    ELSE -1

\* Encoder.prepare_header(cfg): the header bytes with every offset and the
\* check sum still 0; the areas are the AreaOffset entries of FRU_SPEC with
\* their position in the header.
prepare_header(hcfg) ==
    IF hcfg.t # "dict"
    THEN AreaRaise("EncoderError", "header: specification must be a dictionary", <<>>)
    ELSE IF \E i \in 1..Len(FRU_SPEC) : HeaderByte(FRU_SPEC[i], hcfg.m) < 0
    THEN AreaRaise("EncoderError", "byte value must be integer in range(256)", <<>>)
    ELSE AreaOk([i \in 1..(Len(FRU_SPEC) + 1) |->
                    IF i > Len(FRU_SPEC) THEN 0 ELSE HeaderByte(FRU_SPEC[i], hcfg.m)], <<>>)

\* The indices in FRU_SPEC of the areas list prepare_header returns.
EncoderAreas == <<2, 3, 4, 5, 6>>

\* len(area_cfg)
AreaLen(a) == IF a.t = "dict" THEN Cardinality(DOMAIN a.m) ELSE Len(a.s)

\* The area encoder Encoder.encode picks for an area.
EncodeArea(spec, acfg, is_last) ==
    IF spec.kind = "InfoTable"
    THEN encode_info_table(spec, acfg)
    ELSE encode_area_hex(spec, acfg, is_last)

\* PlaceArea with the offset of the area's end in place of that of its start
PlaceAreaEndOffset(st, pos0, r) ==
    IF r.exc # ""
    THEN [st EXCEPT !.exc = r.exc, !.msg = r.msg, !.log = st.log \o r.log]
    ELSE [st EXCEPT !.ret = IF r.bytes # <<>>
                            THEN [st.ret \o r.bytes EXCEPT ![pos0] = Len(st.ret \o r.bytes) \div 8]
                            ELSE st.ret,
                    !.i = st.i + 1,
                    !.log = st.log \o r.log]

\* ret += <area bytes r>; ret[entry_pos] = div8(pos) when bytes were added.
PlaceArea(st, pos0, r) ==
    IF r.exc # ""
    THEN [st EXCEPT !.exc = r.exc, !.msg = r.msg, !.log = st.log \o r.log]
    ELSE IF r.bytes # <<>> /\ ~div8(Len(st.ret)).ok
    THEN [st EXCEPT !.exc = "AssertionError", !.log = st.log \o r.log]
    ELSE IF r.bytes # <<>> /\ div8(Len(st.ret)).v > 255
    THEN [st EXCEPT !.exc = "ValueError", !.msg = "byte must be in range(0, 256)",
                    !.log = st.log \o r.log]
    ELSE [st EXCEPT !.ret = IF r.bytes # <<>>
                            THEN [st.ret \o r.bytes EXCEPT ![pos0] = div8(Len(st.ret)).v]
                            ELSE st.ret,
                    !.i = st.i + 1,
                    !.log = st.log \o r.log]

\* One iteration of the loop over areas of Encoder.encode, for the k-th
\* area; st = [exc, msg, ret, i, log].
EncodeAreaStep(cfg, k, st) ==
    IF Len(st.ret) % 8 # 0 THEN [st EXCEPT !.exc = "AssertionError"]
    ELSE IF FRU_SPEC[EncoderAreas[k]].name \notin DOMAIN cfg THEN st
    ELSE IF AreaLen(cfg[FRU_SPEC[EncoderAreas[k]].name]) = 0 THEN st
    ELSE PlaceArea(st, EncoderAreas[k],
                   EncodeArea(FRU_SPEC[EncoderAreas[k]], cfg[FRU_SPEC[EncoderAreas[k]].name],
                              st.i = Len(EncoderAreas) - 1))

RECURSIVE EncodeAreas(_, _, _)
EncodeAreas(cfg, k, st) ==
    IF k > Len(EncoderAreas) \/ st.exc # "" THEN st
    ELSE EncodeAreas(cfg, k + 1, EncodeAreaStep(cfg, k, st))

\* The end of Encoder.encode with ret.append(checksum(...)) in place of
\* ret[header_checksum_pos] = checksum(...).
EncodeReturnAppended(st) ==
    IF st.exc # "" THEN AreaRaise(st.exc, st.msg, st.log)
    ELSE AreaOk(Append(st.ret, checksum(Slice(st.ret, 0, Len(FRU_SPEC)))), st.log)

\* ret[header_checksum_pos] = checksum(ret[:header_checksum_pos]) and the
\* return of Encoder.encode, for the state st the loop over the areas left.
EncodeReturn(st) ==
    IF st.exc # "" THEN AreaRaise(st.exc, st.msg, st.log)
    ELSE AreaOk([st.ret EXCEPT ![Len(FRU_SPEC) + 1] = checksum(Slice(st.ret, 0, Len(FRU_SPEC)))],
                st.log)

\* Encoder.encode after prepare_header returned h.
EncodeBody(cfg, h) ==
    IF h.exc # "" THEN h
    ELSE EncodeReturn(EncodeAreas(cfg, 1, [exc |-> "", msg |-> "", ret |-> h.bytes,
                                           i |-> 0, log |-> <<>>]))

\* Encoder.encode(cfg): [exc, msg, bytes, log]
encode(cfg) ==
    EncodeBody(cfg, prepare_header(IF "header" \in DOMAIN cfg THEN cfg["header"]
                                   ELSE DictA(EmptyMap)))

(***************************************************************************)
(* decoder.py: StrDecoders                                                 *)
(***************************************************************************)
StrDecoders_hex(data)     == StrV("Hexadecimal", b2a_hex(data))
StrDecoders_bcd(data)     == StrV("BcdString", Translate(b2a_hex(data), HEX2BCD))
StrDecoders_packed(data)  == StrV("PackedAscii", PackedDecode(data))
StrDecoders_l1bytes(data) == StrV("ProperLatin1String", Latin1Decode(data))
StrDecoders_u16bytes(data) ==
    IF Len(data) % 2 # 0
    THEN StrV("MisusedLatin1String", Latin1Decode(data))
    ELSE StrV("ProperU16String", Ucs2LeDecode(data))

\* StrDecoders.decoders[t](data)
StrDecoders_decoders(t, data) ==
    CASE t = 0 -> StrDecoders_hex(data)
      [] t = 1 -> StrDecoders_bcd(data)
      [] t = 2 -> StrDecoders_packed(data)
      [] t = 3 -> StrDecoders_l1bytes(data)

(***************************************************************************)
(* decoder.py: entry decoders.  Each returns [exc, l, v, lang, log] for    *)
(* the bytes "data" left in the table; "at" is the offset of data[0] in    *)
(* the buffer.  exc = "IndexError" when the decoder reads past the data.   *)
(***************************************************************************)
DecOk(l, v, lang, log) == [exc |-> "", l |-> l, v |-> v, lang |-> lang, log |-> log]
DecRaise(exc, lang, log) == [exc |-> exc, l |-> 0, v |-> NoneV, lang |-> lang, log |-> log]

\* Decoder.decode_byte
decode_byte(prefix, spec, data, lang, at) ==
    IF Len(data) < 1 THEN DecRaise("IndexError", lang, <<>>)
    ELSE DecOk(1, IntV(data[1]), lang,
               IF data[1] < spec.minvalue \/ data[1] > spec.maxvalue
               THEN <<DiagAt("warning", "Byte has value out of bounds", prefix, spec.name, at)>>
               ELSE <<>>)

\* Decoder.decode_date
decode_date(prefix, spec, data, lang, at) ==
    IF Len(data) < 3 THEN DecRaise("IndexError", lang, <<>>)
    ELSE DecOk(3, DateV((data[1] + 256 * data[2] + 65536 * data[3]) * 60 + FRU_EPOCH_SEC),
               lang, <<>>)

\* The decoder decode_str2 picks for type t, applied to the payload.
DecodeStrPayload(spec, t, payload, lang) ==
    IF spec.use_lang /\ t = 3 /\ ~English(lang)
    THEN StrDecoders_u16bytes(payload)
    ELSE StrDecoders_decoders(t, payload)

\* Decoder.decode_str2 (and decode_str, which only calls it)
decode_str2(prefix, spec, data, lang, at) ==
    IF Len(data) < 1 THEN DecRaise("IndexError", lang, <<>>)
    ELSE DecOk((data[1] % Pow2(6)) + 1,
               DecodeStrPayload(spec, data[1] \div Pow2(6),
                                Slice(data, 1, (data[1] % Pow2(6)) + 1), lang),
               lang,
               IF data[1] = 193
               THEN <<DiagAt("warning",
                      "String with length 1 byte found. This is forbidden in specification.",
                      prefix, spec.name, at)>>
               ELSE <<>>)

\* decode_oem that drops the payload of a string but not its type/length byte.
OemJoinPayloadOnly(acc, r) ==
    [data |-> From(acc.data, r.l - 1),
     out  |-> Append(acc.out, r.v),
     log  |-> acc.log \o r.log,
     at   |-> acc.at + r.l - 1]

\* ret.append(val); data = data[l:] for what decode_str2 returned.
OemJoin(acc, r) ==
    [data |-> From(acc.data, r.l),
     out  |-> Append(acc.out, r.v),
     log  |-> acc.log \o r.log,
     at   |-> acc.at + r.l]

\* The loop of Decoder.decode_oem: acc = [data, out, log, at].
RECURSIVE DecodeOemLoop(_, _, _)
DecodeOemLoop(prefix, lang, acc) ==
    IF Len(acc.data) = 0 THEN acc
    ELSE DecodeOemLoop(prefix, lang,
            OemJoin(acc, decode_str2(prefix, U16Str(OemName(Len(acc.out) + 1)),
                                     acc.data, lang, acc.at)))

\* The length Decoder.decode_oem reports as consumed: len(data) once its
\* loop has emptied data.
OemConsumed(rest) == Len(rest)

\* "return len(data), ret" of decode_oem, for the state r its loop left.
OemReturn(r, lang) == DecOk(OemConsumed(r.data), ListV(r.out), lang, r.log)

\* Decoder.decode_oem
decode_oem(prefix, spec, data, lang, at) ==
    OemReturn(DecodeOemLoop(prefix, lang,
                            [data |-> data, out |-> <<>>, log |-> <<>>, at |-> at]),
              lang)

\* self.entry_decoders: the decoder of the entry's class
DecodeEntry(prefix, spec, data, lang, at) ==
    CASE spec.kind \in {"ChassisType", "Lang"} -> decode_byte(prefix, spec, data, lang, at)
      [] spec.kind = "Date"                    -> decode_date(prefix, spec, data, lang, at)
      [] spec.kind \in {"L1Str", "U16Str"}     -> decode_str2(prefix, spec, data, lang, at)
      [] spec.kind = "OemStrList"              -> decode_oem(prefix, spec, data, lang, at)

\* EntryJoin without "self.lang = val" after a Lang entry
EntryJoinLangKept(acc, e, r) ==
    IF r.exc = "IndexError"
    THEN [acc EXCEPT !.exc = "DecoderError",
                     !.msg = "Entry overlaps ending byte (0xC1)",
                     !.field = e.name,
                     !.log = acc.log \o r.log]
    ELSE [acc EXCEPT !.data = From(acc.data, r.l),
                     !.out  = (e.name :> r.v) @@ acc.out,
                     !.log  = acc.log \o r.log,
                     !.at   = acc.at + r.l]

\* The body of the loop of decode_info_table_inner after entry e's decoder
\* returned r: the IndexError becomes a DecoderError, else ret[e.name] = val,
\* data = data[l:], and self.lang = val after a Lang entry.
EntryJoin(acc, e, r) ==
    IF r.exc = "IndexError"
    THEN [acc EXCEPT !.exc = "DecoderError",
                     !.msg = "Entry overlaps ending byte (0xC1)",
                     !.field = e.name,
                     !.log = acc.log \o r.log]
    ELSE [acc EXCEPT !.data = From(acc.data, r.l),
                     !.out  = (e.name :> r.v) @@ acc.out,
                     !.lang = IF e.kind = "Lang" THEN r.v.n ELSE acc.lang,
                     !.log  = acc.log \o r.log,
                     !.at   = acc.at + r.l]

\* The loop over spec.entries of decode_info_table_inner:
\* acc = [exc, msg, field, data, out, lang, log, at].
RECURSIVE DecodeEntries(_, _, _)
DecodeEntries(spec, i, acc) ==
    IF i > Len(spec.entries) \/ acc.exc # "" THEN acc
    ELSE DecodeEntries(spec, i + 1,
            EntryJoin(acc, spec.entries[i],
                      DecodeEntry(spec.name, spec.entries[i], acc.data, acc.lang, acc.at)))

\* "assert len(data) == 0" of decode_info_table_inner, for the state r its
\* loop left.
InnerReturn(r) ==
    IF r.exc = "" /\ Len(r.data) # 0 THEN [r EXCEPT !.exc = "AssertionError"] ELSE r

\* Decoder.decode_info_table_inner(spec, data): [exc, msg, field, out, log]
decode_info_table_inner(spec, data, at) ==
    InnerReturn(DecodeEntries(spec, 1,
                    [exc |-> "", msg |-> "", field |-> "", data |-> data, out |-> EmptyMap,
                     lang |-> 0, log |-> <<>>, at |-> at]))

(***************************************************************************)
(* logging.py: the sink's decodererror.  Under the "strict" policy the     *)
(* sink is StdErrLogger, whose decodererror raises DecoderError(msg);      *)
(* under "tolerant" it is a Logger that records the message and returns.   *)
(***************************************************************************)
Policies == {"strict", "tolerant"}

\* The diagnostics a step has logged so far, then logger.decodererror(dg):
\* [raised, log].
decodererror(policy, log, dg) ==
    IF policy = "strict"
    THEN [raised |-> TRUE, log |-> log]
    ELSE [raised |-> FALSE, log |-> Append(log, dg)]

\* No call of decodererror: nothing raised, the log as it was.
NotRaised(log) == [raised |-> FALSE, log |-> log]

(***************************************************************************)
(* decoder.py: area decoders.  Each returns [exc, msg, field, l, v, log]   *)
(* for data = the buffer from the area's offset "off" on.                  *)
(***************************************************************************)
ADecOk(l, v, log) == [exc |-> "", msg |-> "", field |-> "", l |-> l, v |-> v, log |-> log]
ADecRaise(exc, msg, field, log) ==
    [exc |-> exc, msg |-> msg, field |-> field, l |-> 0, v |-> TextA(<<>>), log |-> log]

\* The IndexError of decode_area_len, as the DecoderError it raises.
Premature(log) ==
    [exc |-> "DecoderError", msg |-> "Premature end of data when parsing table",
     l |-> 0, log |-> log]

\* "l = data[1] * 8; data[l - 1]" of decode_area_len, after the version
\* check e = [raised, log].
AreaLenRead(data, e) ==
    IF e.raised
    THEN [exc |-> "DecoderError", msg |-> "Table has unkown/unsupported version",
          l |-> 0, log |-> e.log]
    ELSE IF Len(data) < 2 THEN Premature(e.log)
    ELSE IF data[2] * 8 > Len(data) THEN Premature(e.log)
    ELSE [exc |-> "", msg |-> "", l |-> data[2] * 8, log |-> e.log]

\* Decoder.decode_area_len: [exc, msg, l, log]
decode_area_len(policy, spec, data, off) ==
    IF Len(data) < 1 THEN Premature(<<>>)
    ELSE AreaLenRead(data,
            IF data[1] # 1
            THEN decodererror(policy, <<>>,
                    DiagAt("decodererror", "Table has unkown/unsupported version",
                           spec.name, "", off))
            ELSE NotRaised(<<>>))

\* The backward scan of decode_info_table for the end-of-table byte:
\* st = [eot, log], eot a 0-based index into data.
RECURSIVE ScanEot(_, _, _, _)
ScanEot(spec, data, off, st) ==
    IF st.eot > 2 /\ data[st.eot + 1] # 193
    THEN ScanEot(spec, data, off,
            [eot |-> st.eot - 1,
             log |-> IF data[st.eot + 1] # 0
                     THEN Append(st.log, DiagAt("warning", "Table padding is nonzero",
                                                spec.name, "", off + st.eot))
                     ELSE st.log])
    ELSE st

\* "return l, ret" of decode_info_table: r is what decode_info_table_inner
\* returned, log the diagnostics before it.
TableReturn(l, log, r) ==
    IF r.exc # "" THEN ADecRaise(r.exc, r.msg, r.field, log \o r.log)
    ELSE ADecOk(l, DictA(r.out), log \o r.log)

\* decode_info_table after its scan left sc = [eot, log]: the warning about
\* the padding, and decode_info_table_inner on data[2:eot].
TableEntries(spec, data, off, sc) ==
    TableReturn(Len(data),
                IF Len(data) - sc.eot > 9
                THEN Append(sc.log, DiagAt("warning", "Table has too many padding bytes",
                                           spec.name, "", off + sc.eot))
                ELSE sc.log,
                decode_info_table_inner(spec, Slice(data, 2, sc.eot), off + 2))

\* decode_info_table after its check of the sum, c = [raised, log].
TableScan(spec, data, off, c) ==
    IF c.raised THEN ADecRaise("DecoderError", "Invalid check sum for table", "", c.log)
    ELSE TableEntries(spec, data, off, ScanEot(spec, data, off, [eot |-> Len(data) - 2, log |-> c.log]))

\* decode_info_table with the check of the sum moved behind the scan and the
\* fields.
TableSumLast(policy, spec, data, off, log) ==
    IF SumSeq(data) % 256 = 0 THEN TableScan(spec, data, off, NotRaised(log))
    ELSE IF policy = "strict"
    THEN ADecRaise("DecoderError", "Invalid check sum for table", "",
                   TableScan(spec, data, off, NotRaised(log)).log)
    ELSE [TableScan(spec, data, off, NotRaised(log)) EXCEPT
            !.log = Append(@, DiagAt("decodererror", "Invalid check sum for table", spec.name, "",
                                     off + Len(data) - 1))]

\* decode_info_table on data = data[:l]
TableSum(policy, spec, data, off, log) ==
    TableScan(spec, data, off,
              IF SumSeq(data) % 256 # 0
              THEN decodererror(policy, log,
                      DiagAt("decodererror", "Invalid check sum for table", spec.name, "",
                             off + Len(data) - 1))
              ELSE NotRaised(log))

\* decode_info_table after decode_area_len returned al.
TableLen(policy, spec, data0, off, al) ==
    IF al.exc # "" THEN ADecRaise(al.exc, al.msg, "", al.log)
    ELSE TableSum(policy, spec, Slice(data0, 0, al.l), off, al.log)

\* Decoder.decode_info_table
decode_info_table(policy, spec, data0, off) ==
    TableLen(policy, spec, data0, off, decode_area_len(policy, spec, data0, off))

\* The lines of 64 hexadecimal digits of area_hexdump, each after a newline.
RECURSIVE HexLines(_)
HexLines(hex) ==
    IF hex = <<>> THEN <<>>
    ELSE <<10>> \o Slice(hex, 0, 64) \o HexLines(From(hex, 64))

\* Decoder.area_hexdump
area_hexdump(data, log) == ADecOk(Len(data), TextA(HexPrefix \o HexLines(b2a_hex(data))), log)

\* decode_internal after decode_area_len returned al.
InternalLen(data, al) ==
    IF al.exc # "" THEN ADecRaise(al.exc, al.msg, "", al.log)
    ELSE area_hexdump(Slice(data, 0, al.l), al.log)

\* Decoder.decode_internal
decode_internal(policy, spec, data, off) ==
    InternalLen(data, decode_area_len(policy, spec, data, off))

\* Decoder.decode_multivalue
decode_multivalue(policy, spec, data, off) ==
    area_hexdump(data,
        <<DiagAt("warning",
                 "No decoding of multivalue data is performed, just returning hexdump of remaining data",
                 spec.name, "", off)>>)

\* self.area_decoders: the decoder of the area's class
DecodeAreaBytes(policy, spec, data, off) ==
    CASE spec.kind = "InternalUse" -> decode_internal(policy, spec, data, off)
      [] spec.kind = "InfoTable"   -> decode_info_table(policy, spec, data, off)
      [] spec.kind = "MultiValue"  -> decode_multivalue(policy, spec, data, off)

(***************************************************************************)
(* decoder.py: header                                                      *)
(***************************************************************************)
\* The diagnostic of decode_header_byte for a byte that differs.
HeaderByteDiag(area, i) ==
    DiagAt(IF area.mandatory THEN "decodererror" ELSE "warning",
           "Base header entry has wrong value", "header", area.name, i - 1)

\* decode_header_byte after its check e = [raised, log].
HeaderByteReturn(acc, area, value, e) ==
    IF e.raised
    THEN [acc EXCEPT !.exc = "DecoderError", !.msg = "Base header entry has wrong value"]
    ELSE [acc EXCEPT !.log = e.log,
                     !.ret = IF area.virtual \/ area.value = value THEN acc.ret
                             ELSE (area.name :> IntV(value)) @@ acc.ret]

\* Decoder.decode_header_byte
decode_header_byte(policy, area, value, i, acc) ==
    HeaderByteReturn(acc, area, value,
        IF area.value = value THEN NotRaised(acc.log)
        ELSE IF area.mandatory THEN decodererror(policy, acc.log, HeaderByteDiag(area, i))
        ELSE NotRaised(Append(acc.log, HeaderByteDiag(area, i))))

\* Decoder.decode_header_area
decode_header_area(value, i, acc) ==
    IF value # 0
    THEN [acc EXCEPT !.areas = Append(acc.areas, [spec |-> i, pos |-> i - 1, offset |-> value * 8])]
    ELSE acc

\* One iteration of the loop of decode_header, for FRU_SPEC[i] and the byte
\* data[i] (1-based here).  acc = [exc, msg, ret, areas, log].
DecodeHeaderEntry(policy, data, i, acc) ==
    IF FRU_SPEC[i].kind = "AreaByte"
    THEN decode_header_byte(policy, FRU_SPEC[i], data[i], i, acc)
    ELSE decode_header_area(data[i], i, acc)

RECURSIVE DecodeHeaderLoop(_, _, _, _)
DecodeHeaderLoop(policy, data, i, acc) ==
    IF i > Len(FRU_SPEC) \/ acc.exc # "" THEN acc
    ELSE DecodeHeaderLoop(policy, data, i + 1, DecodeHeaderEntry(policy, data, i, acc))

\* What decode_header has before its loop: nothing decoded.
HeaderNone == [exc |-> "", msg |-> "", ret |-> EmptyMap, areas |-> <<>>, log |-> <<>>]

\* decode_header after its check of the sum, c = [raised, log].
HeaderEntries(policy, data, c) ==
    IF c.raised
    THEN [HeaderNone EXCEPT !.exc = "DecoderError", !.msg = "Base header has wrong checksum"]
    ELSE DecodeHeaderLoop(policy, data, 1, [HeaderNone EXCEPT !.log = c.log])

\* Decoder.decode_header(data): [exc, msg, ret, areas, log]; the position
\* after the header is checksum_pos + 1, checksum_pos = len(FRU_SPEC).
decode_header(policy, data) ==
    IF Len(data) < Len(FRU_SPEC) + 1
    THEN [HeaderNone EXCEPT !.exc = "DecoderError",
                            !.msg = "Cannot decode base header, data too short."]
    ELSE HeaderEntries(policy, data,
            IF SumSeq(Slice(data, 0, Len(FRU_SPEC) + 1)) % 256 # 0
            THEN decodererror(policy, <<>>,
                    DiagAt("decodererror", "Base header has wrong checksum", "header", "",
                           Len(FRU_SPEC)))
            ELSE NotRaised(<<>>))

\* areas.sort(key=lambda x: x.offset): a stable sort.
RECURSIVE InsertByOffset(_, _)
InsertByOffset(sorted, a) ==
    IF sorted = <<>> THEN <<a>>
    ELSE IF sorted[Len(sorted)].offset <= a.offset THEN Append(sorted, a)
    ELSE Append(InsertByOffset(SubSeq(sorted, 1, Len(sorted) - 1), a), sorted[Len(sorted)])

RECURSIVE SortByOffset(_)
SortByOffset(areas) ==
    IF areas = <<>> THEN <<>>
    ELSE InsertByOffset(SortByOffset(SubSeq(areas, 1, Len(areas) - 1)), areas[Len(areas)])

(***************************************************************************)
(* decoder.py: Decoder.decode, one step per part of the call.  The state   *)
(* of a call is                                                            *)
(*   [pc, ret, areas, k, pos, prev_area, exc, msg, field, log]             *)
(* pc: "header" (called, nothing done), "areas" (in the loop over areas,   *)
(* k done), "trailer" (loop done), "done" (returned ret), "failed" (raised *)
(* exc).                                                                   *)
(***************************************************************************)
DecoderIdle ==
    [pc |-> "idle", ret |-> [k \in {} |-> DictA(EmptyMap)], areas |-> <<>>, k |-> 0, pos |-> 0,
     prev_area |-> "", exc |-> "", msg |-> "", field |-> "", log |-> <<>>]

DecoderCalled == [DecoderIdle EXCEPT !.pc = "header"]

\* The "header" entry of ret, the sort of the areas and its warning, for
\* what decode_header returned (h) and the sorted areas.
HeaderDone(d, h, sorted) ==
    [d EXCEPT !.pc = IF sorted = <<>> THEN "trailer" ELSE "areas",
              !.ret = IF DOMAIN h.ret # {} THEN ("header" :> DictA(h.ret)) ELSE d.ret,
              !.areas = sorted,
              !.k = 0,
              !.pos = Len(FRU_SPEC) + 1,
              !.prev_area = "header",
              !.log = IF sorted # h.areas
                      THEN Append(h.log, DiagAt("warning",
                              "Areas are not ordered as required by specification.", "header", "",
                              Len(FRU_SPEC) + 1))
                      ELSE h.log]

\* Decoder.decode after decode_header returned or raised h.
HeaderReturn(d, h) ==
    IF h.exc # ""
    THEN [d EXCEPT !.pc = "failed", !.exc = h.exc, !.msg = h.msg, !.log = h.log]
    ELSE HeaderDone(d, h, SortByOffset(h.areas))

\* decode_header, the "header" entry of ret, the sort and its warning.
DecodeHeaderStep(policy, data, d) == HeaderReturn(d, decode_header(policy, data))

\* The warning of Decoder.decode about bytes between two areas.
GapLog(d, a) ==
    IF d.pos < a.offset
    THEN Append(d.log, DiagAt("warning", "Ignoring gap between areas",
                              FRU_SPEC[a.spec].name, "", d.pos))
    ELSE d.log

\* "pos += l; ret[a.spec.name] = val" for what the area's decoder returned.
AreaReturn(d, a, log1, r) ==
    IF r.exc # ""
    THEN [d EXCEPT !.pc = "failed", !.exc = r.exc, !.msg = r.msg, !.field = r.field,
                   !.log = log1 \o r.log]
    ELSE [d EXCEPT !.k = d.k + 1,
                   !.pc = IF d.k + 1 = Len(d.areas) THEN "trailer" ELSE "areas",
                   !.pos = a.offset + r.l,
                   !.ret = IF AreaLen(r.v) # 0 THEN (FRU_SPEC[a.spec].name :> r.v) @@ d.ret
                           ELSE d.ret,
                   !.log = log1 \o r.log]

\* The iteration of "for a in areas" for area a.
DecodeArea(policy, data, d, a) ==
    IF d.pos > a.offset
    THEN [d EXCEPT !.pc = "failed", !.exc = "DecoderError", !.msg = "Area overlaps area",
                   !.field = FRU_SPEC[a.spec].name]
    ELSE AreaReturn(d, a, GapLog(d, a),
                    DecodeAreaBytes(policy, FRU_SPEC[a.spec], From(data, a.offset), a.offset))

\* One iteration of "for a in areas".
DecodeAreaStep(policy, data, d) == DecodeArea(policy, data, d, d.areas[d.k + 1])

\* The bytes after the last area, and the return.
DecodeTrailerStep(policy, data, d) ==
    [d EXCEPT !.pc = "done",
              !.log = IF \E i \in (d.pos + 1)..Len(data) : data[i] # 0
                      THEN Append(d.log, DiagAt("warning", "Ignoring bytes after last area", "", "", d.pos))
                      ELSE IF d.pos < Len(data)
                      THEN Append(d.log, DiagAt("info", "Ignoring zero bytes after last area", "", "", d.pos))
                      ELSE d.log]

\* The step of a call in state d.
DecodeStep(policy, data, d) ==
    CASE d.pc = "header"  -> DecodeHeaderStep(policy, data, d)
      [] d.pc = "areas"   -> DecodeAreaStep(policy, data, d)
      [] d.pc = "trailer" -> DecodeTrailerStep(policy, data, d)
      [] OTHER            -> d

\* Decoder.decode(data) run to its end: the state at "done" or "failed".
RECURSIVE DecodeRun(_, _, _)
DecodeRun(policy, data, d) ==
    IF d.pc \in {"done", "failed", "idle"} THEN d
    ELSE DecodeRun(policy, data, DecodeStep(policy, data, d))

decode(policy, data) == DecodeRun(policy, data, DecoderCalled)

(***************************************************************************)
(* fruit.py (the stand-alone script): FRU_TABLE_DEF and the entry classes  *)
(***************************************************************************)
\* u'1996-01-01T00:00:00Z', the default of a Date entry
DefaultDate == <<49, 57, 57, 54, 45, 48, 49, 45, 48, 49, 84, 48, 48, 58, 48, 48, 58, 48, 48, 90>>

\* Byte(key, default, minval, maxval)
LegacyByte(key, default, minval, maxval) ==
    [kind |-> "B", key |-> key, default |-> IntV(default), minval |-> minval, maxval |-> maxval]

\* Date(key)
LegacyDate(key) ==
    [kind |-> "D", key |-> key, default |-> StrV("str", DefaultDate), minval |-> 0, maxval |-> 0]

\* Str(key)
LegacyStr(key) ==
    [kind |-> "S", key |-> key, default |-> StrV("str", <<>>), minval |-> 0, maxval |-> 0]

\* OemStr(key)
LegacyOemStr(key) ==
    [kind |-> "O", key |-> key, default |-> ListV(<<>>), minval |-> 0, maxval |-> 0]

\* A header entry (None, value) of FRU_TABLE_DEF
LegacyHeaderByte(value) == [name |-> "", value |-> value, entries |-> <<>>]

\* A table (name, entry, ...) of FRU_TABLE_DEF
LegacyTable(name, entries) == [name |-> name, value |-> 0, entries |-> entries]

FRU_TABLE_DEF == <<
    LegacyHeaderByte(1),
    LegacyHeaderByte(0),
    LegacyTable("chassis", <<
        LegacyByte("type", 2, 1, 32),
        LegacyStr("partno"),
        LegacyStr("serial") >>),
    LegacyTable("board", <<
        LegacyByte("lang", 0, 0, 0),
        LegacyDate("date"),
        LegacyStr("manufacturer"),
        LegacyStr("product"),
        LegacyStr("serial"),
        LegacyStr("partno"),
        LegacyStr("fru") >>),
    LegacyTable("product", <<
        LegacyByte("lang", 0, 0, 0),
        LegacyStr("manufacturer"),
        LegacyStr("name"),
        LegacyStr("partno"),
        LegacyStr("version"),
        LegacyStr("serial"),
        LegacyStr("asset"),
        LegacyStr("fru") >>),
    LegacyHeaderByte(0),
    LegacyHeaderByte(0) >>

\* Table.__init__: the entries of the table, then OemStr("oem")
LegacyTableEntries(spec) == Append(spec.entries, LegacyOemStr("oem"))

(***************************************************************************)
(* fruit.py: encoding.  The state of a FruEncoder.encode call is           *)
(*   [exc, msg, data, log, cfg, cur, maps, self_data]                      *)
(* exc = "" while nothing was raised; data is self.data; cfg is the        *)
(* caller's tree, cur the mapping of the table at work (Table.cfg), maps   *)
(* the mappings of the tables done, each as the pops have left it.  The    *)
(* call returns the state with data = what it returns (nothing when it     *)
(* raises) and self_data = self.data.                                      *)
(***************************************************************************)
LegacyRaise(acc, exc, msg) == [acc EXCEPT !.exc = exc, !.msg = msg]

\* dict.pop(k, default) as to the keys: the mapping without k
Popped(m, k) == [x \in DOMAIN m \ {k} |-> m[x]]

\* self.val.encode('ascii') of Str.enc_validate: ok = FALSE when it raises
\* (a value that is no string, a character that is not ASCII), and then
\* self.bval is not set.
StrBval(v) ==
    [ok |-> v.t = "str" /\ \A i \in 1..Len(v.s) : v.s[i] < 128, bytes |-> v.s]

\* Str.enc_validate returns without raising EncoderError.
StrValid(v) == StrBval(v).ok /\ Len(v.s) # 1 /\ Len(v.s) <= 63

\* Str.enc_append for self.bval = bv
Str_enc_append(acc, bv) ==
    IF ~bv.ok
    THEN LegacyRaise(acc, "AttributeError", "'Str' object has no attribute 'bval'")
    ELSE IF 192 + Len(bv.bytes) > 255
    THEN LegacyRaise(acc, "ValueError", "byte must be in range(0, 256)")
    ELSE [acc EXCEPT !.data = (@ \o <<192 + Len(bv.bytes)>>) \o bv.bytes]

\* Entry.process of a Str: the EncoderError of enc_validate is built, never
\* raised, and enc_append runs whatever enc_validate found.
Str_process(acc, v) == Str_enc_append(acc, StrBval(v))

\* Entry.process of a Byte: int(self.val) raises TypeError for a list (the
\* other errors of enc_validate are EncoderErrors, dropped), then
\* data.append(self.val).
Byte_process(acc, v) ==
    IF v.t = "list"
    THEN LegacyRaise(acc, "TypeError", "int() argument must be a string or a number")
    ELSE IF v.t # "int"
    THEN LegacyRaise(acc, "TypeError", "an integer is required")
    ELSE IF v.n \notin 0..255
    THEN LegacyRaise(acc, "ValueError", "byte must be in range(0, 256)")
    ELSE [acc EXCEPT !.data = Append(@, v.n)]

\* Entry.process of a Date: a warning for a value other than the default,
\* and three zero bytes.
Date_process(acc, e, v) ==
    [acc EXCEPT !.data = @ \o <<0, 0, 0>>,
                !.log = IF v # e.default
                        THEN Append(@, Diag("warning", "Setting date not supported - ignoring",
                                            "", e.key))
                        ELSE @]

\* self.strs as OemStr.enc_validate leaves it for a list: the items before
\* the first one Str.enc_validate refuses.
RECURSIVE OemStrs(_, _)
OemStrs(items, i) ==
    IF i > Len(items) \/ ~StrValid(items[i]) THEN <<>>
    ELSE <<items[i]>> \o OemStrs(items, i + 1)

\* OemStr.enc_append: "for s in self.strs: s.enc_append(data)"
RECURSIVE OemStr_enc_append(_, _, _)
OemStr_enc_append(acc, strs, i) ==
    IF i > Len(strs) \/ acc.exc # "" THEN acc
    ELSE OemStr_enc_append(Str_enc_append(acc, StrBval(strs[i])), strs, i + 1)

\* Entry.process of an OemStr: for a value that is no list self.strs stays
\* None, which enc_append cannot iterate.
OemStr_process(acc, v) ==
    IF v.t # "list"
    THEN LegacyRaise(acc, "TypeError", "'NoneType' object is not iterable")
    ELSE OemStr_enc_append(acc, OemStrs(v.items, 1), 1)

\* Entry.process(cfg, data) after Entry.cfgpop has taken v out of cfg
Entry_process(acc, e, v) ==
    CASE e.kind = "B" -> Byte_process(acc, v)
      [] e.kind = "D" -> Date_process(acc, e, v)
      [] e.kind = "S" -> Str_process(acc, v)
      [] e.kind = "O" -> OemStr_process(acc, v)

\* "for entry in self.entries: entry.process(self.cfg, data)": Entry.cfgpop
\* takes the entry's key out of the table's mapping, then the entry is
\* validated and appended.
RECURSIVE Table_entries(_, _, _)
Table_entries(acc, entries, i) ==
    IF i > Len(entries) \/ acc.exc # "" THEN acc
    ELSE Table_entries(
            Entry_process([acc EXCEPT !.cur = Popped(@, entries[i].key)], entries[i],
                          IF entries[i].key \in DOMAIN acc.cur THEN acc.cur[entries[i].key]
                          ELSE entries[i].default),
            entries, i + 1)

\* Table.open: the offset goes to the header byte at pos, then the bytes
\* (1, 0).
Table_open(acc, pos) ==
    IF ~div8(Len(acc.data)).ok THEN LegacyRaise(acc, "AssertionError", "")
    ELSE IF div8(Len(acc.data)).v > 255
    THEN LegacyRaise(acc, "ValueError", "byte must be in range(0, 256)")
    ELSE [acc EXCEPT !.data = [@ EXCEPT ![pos] = div8(Len(acc.data)).v] \o <<1, 0>>]

\* Table.close for the data padded up to the check sum: the length byte and
\* the check sum of the table that starts at offset.
Table_seal(acc, offset, padded) ==
    IF div8(Len(padded) + 1 - offset).v > 255
    THEN LegacyRaise(acc, "ValueError", "byte must be in range(0, 256)")
    ELSE [acc EXCEPT !.data =
            Append([padded EXCEPT ![offset + 2] = div8(Len(padded) + 1 - offset).v],
                   checksum(From([padded EXCEPT ![offset + 2] = div8(Len(padded) + 1 - offset).v],
                                 offset)))]

\* Table.close: 0xC1, zero bytes until len(data) % 8 == 7, length, check sum.
Table_close(acc, offset) ==
    IF acc.exc # "" THEN acc
    ELSE Table_seal(acc, offset,
                    Append(acc.data, 193) \o Zeros(PadTo7(Len(acc.data) + 1)))

\* The end of Table.process: the keys no entry has taken are refused.
Table_unknown(acc) ==
    IF acc.exc = "" /\ DOMAIN acc.cur # {}
    THEN LegacyRaise(acc, "EncoderError", "Unknown configuration entries")
    ELSE acc

\* Table.process after Table.cfgpop, for self.cfg = acc.cur
Table_fill(acc, spec, pos) ==
    IF DOMAIN acc.cur = {} THEN [acc EXCEPT !.data = [@ EXCEPT ![pos] = 0]]
    ELSE Table_unknown(
            Table_close(Table_entries(Table_open(acc, pos), LegacyTableEntries(spec), 1),
                        Len(acc.data)))

\* The mapping of the table, as Table.process leaves it, is kept.
Table_done(acc, spec) == [acc EXCEPT !.maps = (spec.name :> acc.cur) @@ @, !.cur = EmptyMap]

\* Table.process(cfg, data), with Table.cfgpop: the table's key is taken
\* out of the caller's tree.
Table_process(acc, spec, pos) ==
    IF spec.name \notin DOMAIN acc.cfg THEN Table_fill([acc EXCEPT !.cur = EmptyMap], spec, pos)
    ELSE IF acc.cfg[spec.name].t # "dict"
    THEN LegacyRaise([acc EXCEPT !.cfg = Popped(@, spec.name)],
                     "EncoderError", "Configuration must be a dictionary")
    ELSE Table_done(
            Table_fill([acc EXCEPT !.cfg = Popped(@, spec.name), !.cur = acc.cfg[spec.name].m],
                       spec, pos),
            spec)

\* FruEncoder.prepare_header: a byte per entry of FRU_TABLE_DEF and one for
\* the check sum, appended to self.data.
FruEncoder_prepare_header ==
    [i \in 1..(Len(FRU_TABLE_DEF) + 1) |->
        IF i > Len(FRU_TABLE_DEF) THEN 0 ELSE FRU_TABLE_DEF[i].value]

\* "for table in self.tables: table.process(self.cfg, self.data)"; the
\* header this call has appended starts at base.
RECURSIVE FruEncoder_tables(_, _, _)
FruEncoder_tables(acc, base, i) ==
    IF i > Len(FRU_TABLE_DEF) \/ acc.exc # "" THEN acc
    ELSE FruEncoder_tables(
            IF FRU_TABLE_DEF[i].name = "" THEN acc
            ELSE Table_process(acc, FRU_TABLE_DEF[i], base + i),
            base, i + 1)

\* The state the call ends in: what it returns, and self.data.
FruEncoder_end(acc) ==
    [acc EXCEPT !.self_data = acc.data, !.data = IF acc.exc # "" THEN <<>> ELSE acc.data]

\* close_header and the end of FruEncoder.encode: the keys no table has
\* taken are refused.
FruEncoder_return(acc, base) ==
    IF acc.exc # "" THEN FruEncoder_end(acc)
    ELSE IF DOMAIN acc.cfg # {}
    THEN FruEncoder_end(
            LegacyRaise([acc EXCEPT !.data = [@ EXCEPT ![base + Len(FRU_TABLE_DEF) + 1] =
                            checksum(Slice(acc.data, 0, base + Len(FRU_TABLE_DEF)))]],
                        "EncoderError", "Invalid configuration entries"))
    ELSE FruEncoder_end(
            [acc EXCEPT !.data = [@ EXCEPT ![base + Len(FRU_TABLE_DEF) + 1] =
                                    checksum(Slice(acc.data, 0, base + Len(FRU_TABLE_DEF)))]])

\* FruEncoder.encode after prepare_header, with its assertion
FruEncoder_body(acc, base) ==
    IF Len(acc.data) % 8 # 0 THEN FruEncoder_end(LegacyRaise(acc, "AssertionError", ""))
    ELSE FruEncoder_return(FruEncoder_tables(acc, base, 1), base)

\* encode(cfg) of a FruEncoder whose self.data is data0 (empty for a new
\* one: __init__ sets it, encode does not)
FruEncoder_call(data0, cfg) ==
    FruEncoder_body([exc |-> "", msg |-> "", data |-> data0 \o FruEncoder_prepare_header,
                     log |-> <<>>, cfg |-> cfg, cur |-> EmptyMap,
                     maps |-> [k \in {} |-> EmptyMap], self_data |-> <<>>],
                    Len(data0))

\* FruEncoder().encode(cfg)
FruEncoder_encode(cfg) == FruEncoder_call(<<>>, cfg)

(***************************************************************************)
(* fruit.py: decoding, as Python 3 runs it.  An entry's decode returns     *)
(*   [exc, l, v, log]                                                      *)
(* exc = "" when it returned l, the bytes consumed, and set self.val = v;  *)
(* exc = "EndOfTable" carries the exception's argument in l.  The log      *)
(* holds what the entry has handed to its logger before it returned or     *)
(* raised.                                                                 *)
(***************************************************************************)
LDecOk(l, v, log)  == [exc |-> "", l |-> l, v |-> v, log |-> log]
LDecRaise(exc, l, log) == [exc |-> exc, l |-> l, v |-> NoneV, log |-> log]

\* strhex
strhex(b) == [exc |-> "", s |-> b2a_hex(b)]

\* bcdplus
bcdplus(b) == [exc |-> "", s |-> Translate(b2a_hex(b), HEX2BCD)]

\* bytearray.decode('ascii'), for the bytes st.ret of a decoder that has
\* raised st.exc or nothing
AsciiDecode(st) ==
    [exc |-> IF st.exc # "" THEN st.exc
             ELSE IF \E i \in 1..Len(st.ret) : st.ret[i] >= 128 THEN "UnicodeDecodeError"
             ELSE "",
     s   |-> IF st.exc = "" /\ \A i \in 1..Len(st.ret) : st.ret[i] < 128 THEN st.ret ELSE <<>>]

\* "while bits > 6" of packedAscii: st = [ret, bitval, bits, exc]
RECURSIVE packedAscii_drain(_)
packedAscii_drain(st) ==
    IF st.exc # "" \/ st.bits <= 6 THEN st
    ELSE IF 32 + (st.bitval % Pow2(st.bits - 6)) > 255 THEN [st EXCEPT !.exc = "ValueError"]
    ELSE packedAscii_drain(
            [ret    |-> Append(st.ret, 32 + (st.bitval % Pow2(st.bits - 6))),
             bitval |-> (st.bitval - (st.bitval % Pow2(st.bits - 6))) \div Pow2(6),
             bits   |-> st.bits - 6,
             exc    |-> ""])

\* "if bits == 6" of packedAscii
packedAscii_six(st) ==
    IF st.exc # "" \/ st.bits # 6 THEN st
    ELSE IF 32 + st.bitval > 255 THEN [st EXCEPT !.exc = "ValueError"]
    ELSE [ret |-> Append(st.ret, 32 + st.bitval), bitval |-> 0, bits |-> 0, exc |-> ""]

\* "while pos < len(data)" of packedAscii (pos counts from 1 here)
RECURSIVE packedAscii_loop(_, _, _)
packedAscii_loop(data, pos, st) ==
    IF pos > Len(data) \/ st.exc # "" THEN st
    ELSE packedAscii_loop(data, pos + 1,
            packedAscii_six(packedAscii_drain(
                [st EXCEPT !.bitval = @ * 256 + data[pos], !.bits = @ + 8])))

\* packedAscii
packedAscii(data) ==
    AsciiDecode(packedAscii_loop(data, 1, [ret |-> <<>>, bitval |-> 0, bits |-> 0, exc |-> ""]))

\* str8bit
str8bit(data) == AsciiDecode([ret |-> data, exc |-> ""])

\* Str.DECODERS[t](data)
Str_DECODERS(t, data) ==
    CASE t = 0 -> strhex(data)
      [] t = 1 -> bcdplus(data)
      [] t = 2 -> packedAscii(data)
      [] t = 3 -> str8bit(data)

\* The warning of Str.decode for a string of a type other than 3
Str_warning(key, tname, t) ==
    IF t # 3
    THEN <<Diag("warning", "Entry has type, note that this is not supported when constructing fru data",
                tname, key)>>
    ELSE <<>>

\* The end of Str.decode: self.val = self.DECODERS[t](data[1:l+1]); return l + 1
Str_decoded(l, d, log) ==
    IF d.exc # "" THEN LDecRaise(d.exc, 0, log) ELSE LDecOk(l + 1, StrV("str", d.s), log)

\* Str.decode(data, tname) of a Str with that key; haslogger says whether
\* setlogger was called on it (self.logger is None otherwise).
Str_decode(key, data, tname, haslogger) ==
    IF Len(data) < 1 THEN LDecRaise("IndexError", 0, <<>>)
    ELSE IF data[1] \div Pow2(6) # 3 /\ ~haslogger THEN LDecRaise("AttributeError", 0, <<>>)
    ELSE IF data[1] \div Pow2(6) = 3 /\ data[1] % Pow2(6) = 1
    THEN LDecRaise("EndOfTable", 1, <<>>)
    ELSE IF data[1] % Pow2(6) >= Len(data)
    THEN LDecRaise("IndexError", 0, Str_warning(key, tname, data[1] \div Pow2(6)))
    ELSE Str_decoded(data[1] % Pow2(6),
                     Str_DECODERS(data[1] \div Pow2(6), Slice(data, 1, (data[1] % Pow2(6)) + 1)),
                     Str_warning(key, tname, data[1] \div Pow2(6)))

\* Byte.decode
Byte_decode(data) ==
    IF Len(data) < 1 THEN LDecRaise("IndexError", 0, <<>>)
    ELSE LDecOk(1, IntV(data[1]), <<>>)

\* Date.decode: self.val is the ISO text of the instant mins * 60 + 820454400,
\* kept here as that instant.
Date_decode(data) ==
    IF Len(data) < 3 THEN LDecRaise("IndexError", 0, <<>>)
    ELSE LDecOk(3, DateV((data[1] + data[2] * 256 + data[3] * 65536) * 60 + FRU_EPOCH_SEC), <<>>)

\* One turn of "while True" of OemStr.decode, for what s.decode(data[pos:])
\* did (r): acc = [exc, pos, val, log], exc = "return" once the method
\* has returned pos.
OemStr_turn(acc, r) ==
    IF r.exc = "EndOfTable"
    THEN [acc EXCEPT !.exc = "return", !.pos = @ + r.l, !.log = @ \o r.log]
    ELSE IF r.exc # ""
    THEN [acc EXCEPT !.exc = r.exc, !.log = @ \o r.log]
    ELSE [acc EXCEPT !.pos = @ + r.l, !.val = Append(@, r.v), !.log = @ \o r.log]

\* s = Str("oem%d" % i); s.decode(data[pos:], tname): i stays 1, and no
\* logger is set on s.
OemStr_next(acc, data, tname) ==
    OemStr_turn(acc, Str_decode("oem1", From(data, acc.pos), tname, FALSE))

RECURSIVE OemStr_loop(_, _, _)
OemStr_loop(acc, data, tname) ==
    IF acc.exc # "" THEN acc ELSE OemStr_loop(OemStr_next(acc, data, tname), data, tname)

OemStr_start == [exc |-> "", pos |-> 0, val |-> <<>>, log |-> <<>>]

\* OemStr.decode
OemStr_decode(data, tname) == OemStr_loop(OemStr_start, data, tname)

\* entry.decode(data, tname) by the entry's class, as [exc, l, v, log]
Entry_decode(e, data, tname) ==
    CASE e.kind = "B" -> Byte_decode(data)
      [] e.kind = "D" -> Date_decode(data)
      [] e.kind = "S" -> Str_decode(e.key, data, tname, TRUE)
      [] e.kind = "O" -> LDecOk(OemStr_decode(data, tname).pos,
                                ListV(OemStr_decode(data, tname).val),
                                OemStr_decode(data, tname).log)

\* What entry.decode raised, when OemStr.decode did not return
Entry_raised(e, data, tname) ==
    IF e.kind = "O" /\ OemStr_decode(data, tname).exc # "return"
    THEN LDecRaise(OemStr_decode(data, tname).exc, 0, OemStr_decode(data, tname).log)
    ELSE Entry_decode(e, data, tname)

\* entry.decode_default(); entry.save_val(ret): Byte and Date assert False.
Table_default(acc, e) ==
    IF e.kind \in {"B", "D"} THEN [acc EXCEPT !.exc = "AssertionError"]
    ELSE [acc EXCEPT !.ret = (e.key :> e.default) @@ @]

\* The body of the loop of Table.decode for entry e, r being what
\* e.decode(data[pos:], self.name) did: acc = [exc, msg, pos, ret, eot, log].
Table_decode_entry(acc, e, r) ==
    IF acc.eot THEN Table_default(acc, e)
    ELSE IF r.exc = "IndexError"
    THEN [acc EXCEPT !.exc = "DecoderError",
                     !.msg = "Runaway entry - entry overlaps checksum of its table",
                     !.log = @ \o r.log]
    ELSE IF r.exc = "EndOfTable"
    THEN Table_default(
            [acc EXCEPT !.eot = TRUE,
                        !.pos = @ + r.l,
                        !.log = @ \o r.log
                                \o <<Diag("warning", "Table ended when parsing predefined fields.",
                                          "", e.key)>>], e)
    ELSE IF r.exc # ""
    THEN [acc EXCEPT !.exc = r.exc, !.log = @ \o r.log]
    ELSE [acc EXCEPT !.pos = @ + r.l, !.ret = (e.key :> r.v) @@ @, !.log = @ \o r.log]

RECURSIVE Table_decode_loop(_, _, _, _, _)
Table_decode_loop(acc, entries, i, data, tname) ==
    IF i > Len(entries) \/ acc.exc # "" THEN acc
    ELSE Table_decode_loop(
            Table_decode_entry(acc, entries[i],
                               Entry_raised(entries[i], From(data, acc.pos), tname)),
            entries, i + 1, data, tname)

\* Table.decode(data) of the table built from spec
Table_decode(spec, data) ==
    Table_decode_loop([exc |-> "", msg |-> "", pos |-> 0, ret |-> EmptyMap, eot |-> FALSE,
                       log |-> <<>>],
                      LegacyTableEntries(spec), 1, data, spec.name)

(***************************************************************************)
(* fruit.py: FruDecoder.  The state of a decode call is                    *)
(*   [exc, msg, output, log, pos, tables]                                  *)
(* tables are the [name, offset, at] of the header's tables in the order   *)
(* decodetables visits them.                                               *)
(***************************************************************************)
\* self.logger.decodererror(msg) under a policy, for the state acc
LegacyDecoderError(policy, acc, msg, name) ==
    IF policy = "strict"
    THEN [acc EXCEPT !.exc = "DecoderError", !.msg = msg]
    ELSE [acc EXCEPT !.log = Append(@, Diag("decodererror", msg, name, ""))]

LegacyWarn(acc, sev, msg, name) == [acc EXCEPT !.log = Append(@, Diag(sev, msg, name, ""))]

\* The loop of decodeheader over FRU_TABLE_DEF
RECURSIVE decodeheader_loop(_, _, _)
decodeheader_loop(acc, data, i) ==
    IF i > Len(FRU_TABLE_DEF) THEN acc
    ELSE IF i > Len(data)
    THEN [acc EXCEPT !.exc = "DecoderError",
                     !.msg = "Premature end of file while parsing header"]
    ELSE IF FRU_TABLE_DEF[i].name = ""
    THEN decodeheader_loop(
            IF data[i] # FRU_TABLE_DEF[i].value
            THEN LegacyWarn(acc, "warning", "Header entry contains unsupported value", "")
            ELSE acc, data, i + 1)
    ELSE decodeheader_loop(
            [acc EXCEPT !.tables = Append(@, [name |-> FRU_TABLE_DEF[i].name,
                                              offset |-> data[i] * 8, at |-> i])],
            data, i + 1)

\* torder != sorted(torder)
Canonical(tables) ==
    \A i \in 1..Len(tables) : \A j \in 1..Len(tables) :
        i < j => tables[i].offset <= tables[j].offset

\* FruDecoder.decodeheader after its loop: the check sum, the order of the
\* tables, self.pos
decodeheader_check(policy, acc, data) ==
    IF acc.exc # "" THEN acc
    ELSE IF SumSeq(Slice(data, 0, Len(FRU_TABLE_DEF) + 1)) % 256 # 0 /\ Len(data) <= Len(FRU_TABLE_DEF)
    THEN [acc EXCEPT !.exc = "DecoderError",
                     !.msg = "Premature end of file while parsing header"]
    ELSE IF SumSeq(Slice(data, 0, Len(FRU_TABLE_DEF) + 1)) % 256 # 0
    THEN LegacyDecoderError(policy, acc, "Invalid header checksum", "")
    ELSE acc

decodeheader_order(acc) ==
    IF acc.exc # "" THEN acc
    ELSE [(IF ~Canonical(acc.tables)
           THEN LegacyWarn(acc, "warning", "Tables are not in cannonical order.", "")
           ELSE acc) EXCEPT !.pos = Len(FRU_TABLE_DEF) + 1]

\* FruDecoder.decodeheader
decodeheader(policy, acc, data) ==
    decodeheader_order(decodeheader_check(policy, decodeheader_loop(acc, data, 1), data))

\* The end of decodetable: self.pos, the check sum, table.decode, for the
\* bytes tabledata[:explen] of the table and what Table.decode did (r)
decodetable_store(acc, t, r) ==
    IF acc.exc # "" THEN [acc EXCEPT !.log = @ \o r.log]
    ELSE IF r.exc = "DecoderError"
    THEN [acc EXCEPT !.exc = "DecoderError", !.msg = r.msg, !.log = @ \o r.log]
    ELSE IF r.exc # ""
    THEN [acc EXCEPT !.exc = r.exc, !.log = @ \o r.log]
    ELSE [acc EXCEPT !.output = (t.name :> r.ret) @@ @, !.log = @ \o r.log]

decodetable_sum(policy, acc, t, tabledata) ==
    IF acc.exc # "" THEN acc
    ELSE IF SumSeq(tabledata) % 256 # 0
    THEN LegacyDecoderError(policy, acc, "Invalid checksum of table", t.name)
    ELSE acc

decodetable_version(policy, acc, t, tabledata) ==
    IF acc.exc # "" THEN acc
    ELSE IF tabledata[1] # 1
    THEN LegacyDecoderError(policy, acc, "Invalid specification version of table", t.name)
    ELSE acc

\* decodetable from "if tabledata[0] != 1" on, explen being in bounds
decodetable_body(policy, acc, t, tabledata, explen) ==
    IF decodetable_version(policy, acc, t, tabledata).exc # ""
    THEN decodetable_version(policy, acc, t, tabledata)
    ELSE IF decodetable_sum(policy,
                [LegacyWarn(decodetable_version(policy, acc, t, tabledata),
                            "info", "Table has bytes", t.name)
                 EXCEPT !.pos = t.offset + explen],
                t, Slice(tabledata, 0, explen)).exc # ""
    THEN decodetable_sum(policy,
                [LegacyWarn(decodetable_version(policy, acc, t, tabledata),
                            "info", "Table has bytes", t.name)
                 EXCEPT !.pos = t.offset + explen],
                t, Slice(tabledata, 0, explen))
    ELSE decodetable_store(
            decodetable_sum(policy,
                [LegacyWarn(decodetable_version(policy, acc, t, tabledata),
                            "info", "Table has bytes", t.name)
                 EXCEPT !.pos = t.offset + explen],
                t, Slice(tabledata, 0, explen)),
            t, Table_decode(FRU_TABLE_DEF[t.at], Slice(tabledata, 2, explen - 1)))

\* explen of decodetable
Explen(tabledata) == IF Len(tabledata) < 8 THEN 8 ELSE tabledata[2] * 8

\* decodetable from "tabledata = self.data[table.offset:]" on
decodetable_len(policy, acc, t, tabledata) ==
    IF acc.exc # "" THEN acc
    ELSE IF Explen(tabledata) = 0
    THEN [acc EXCEPT !.exc = "DecoderError", !.msg = "Invalid length of table (0)"]
    ELSE IF Explen(tabledata) > Len(tabledata)
    THEN [acc EXCEPT !.exc = "DecoderError", !.msg = "Premature end of file"]
    ELSE decodetable_body(policy, acc, t, tabledata, Explen(tabledata))

\* "if table.offset < self.pos" and "if table.offset > self.pos" of decodetable
decodetable_place(policy, acc, t) ==
    IF t.offset < acc.pos
    THEN LegacyDecoderError(policy, acc, "Table overlaps previous data", t.name)
    ELSE IF t.offset > acc.pos
    THEN LegacyWarn(acc, "warning", "Gap detected before table. Data in gap ignored.", t.name)
    ELSE acc

\* FruDecoder.decodetable(table)
decodetable(policy, acc, t, data) ==
    decodetable_len(policy, decodetable_place(policy, acc, t), t, From(data, t.offset))

\* sorted(self.tables, key = lambda x: x.offset): a stable insertion sort
RECURSIVE LegacyInsert(_, _)
LegacyInsert(sorted, t) ==
    IF sorted = <<>> THEN <<t>>
    ELSE IF sorted[Len(sorted)].offset <= t.offset THEN Append(sorted, t)
    ELSE Append(LegacyInsert(SubSeq(sorted, 1, Len(sorted) - 1), t), sorted[Len(sorted)])

RECURSIVE LegacySorted(_)
LegacySorted(ts) ==
    IF ts = <<>> THEN <<>>
    ELSE LegacyInsert(LegacySorted(SubSeq(ts, 1, Len(ts) - 1)), ts[Len(ts)])

\* The loop of decodetables over the sorted tables
RECURSIVE decodetables_loop(_, _, _, _, _)
decodetables_loop(policy, acc, ts, i, data) ==
    IF i > Len(ts) \/ acc.exc # "" THEN acc
    ELSE IF ts[i].offset = 0
    THEN decodetables_loop(policy, LegacyWarn(acc, "info", "Table is missing", ts[i].name),
                           ts, i + 1, data)
    ELSE decodetables_loop(policy, decodetable(policy, acc, ts[i], data), ts, i + 1, data)

\* The end of decodetables: len(filter(...)) is a TypeError in Python 3
decodetables_rest(acc, data) ==
    IF acc.exc = "" /\ acc.pos < Len(data) THEN [acc EXCEPT !.exc = "TypeError"] ELSE acc

\* FruDecoder.decodetables
decodetables(policy, acc, data) ==
    IF acc.exc # "" THEN acc
    ELSE decodetables_rest(decodetables_loop(policy, acc, LegacySorted(acc.tables), 1, data), data)

FruDecoder_start ==
    [exc |-> "", msg |-> "", output |-> [k \in {} |-> EmptyMap], log |-> <<>>, pos |-> 0,
     tables |-> <<>>]

\* FruDecoder(logger).decode(data), the logger following the policy
FruDecoder_decode(policy, data) ==
    decodetables(policy, decodeheader(policy, FruDecoder_start, data), data)

(***************************************************************************)
(* The value trees the codec session encodes                               *)
(***************************************************************************)
\* n copies of code point c
Rep(c, n) == [i \in 1..n |-> c]

\* The longest name tried for product.name; 64 bytes is the longest payload
\* encode_str lets through.
MaxNameLen == 70

Absent == [t |-> "absent", m |-> EmptyMap, s |-> <<>>]

\* "hex:0101aabb00000000": 8 bytes, length byte 1, sum 111 (mod 256)
InternalBlob == TextA(HexPrefix \o <<48, 49, 48, 49, 97, 97, 98, 98, 48, 48, 48, 48, 48, 48, 48, 48>>)

\* "hex:0102": 2 bytes
MultiBlob == TextA(HexPrefix \o <<48, 49, 48, 50>>)

\* {"type": 17, "serial": "SN123"}
ChassisPlain == DictA(("type" :> IntV(17)) @@ ("serial" :> StrV("str", <<83, 78, 49, 50, 51>>)))

\* {"type": 17, "oem": ["AB"]}
ChassisOem == DictA(("type" :> IntV(17)) @@ ("oem" :> ListV(<<StrV("str", <<65, 66>>)>>)))

\* {"lang": 0, "date": 5, "product": "X1"}
BoardPlain ==
    DictA(("lang" :> IntV(0)) @@ ("date" :> IntV(5)) @@ ("product" :> StrV("str", <<88, 49>>)))

\* A board whose every string has an encoding the decoder tags: lang 1
\* (not English), 16-bit text, packed ASCII, hexadecimal and BCD+ strings.
BoardTagged ==
    DictA(("lang" :> IntV(1)) @@ ("date" :> IntV(5))
          @@ ("manufacturer" :> StrV("str", <<233, 337>>))
          @@ ("product" :> StrV("PackedAscii", <<65, 66, 67, 32>>))
          @@ ("serial" :> StrV("Hexadecimal", <<48, 97>>))
          @@ ("partno" :> StrV("BcdString", <<49, 50>>))
          @@ ("fru" :> StrV("Hexadecimal", <<>>)))

\* {"lang": 25, "name": "N1"}
ProductPlain == DictA(("lang" :> IntV(25)) @@ ("name" :> StrV("str", <<78, 49>>)))

\* {"type": 17, "bogus": 1}: a field no specification defines
ChassisBogus == DictA(("type" :> IntV(17)) @@ ("bogus" :> IntV(1)))

\* {"name": "AAA...A"} with n characters
ProductLongName(n) == DictA("name" :> StrV("str", Rep(65, n)))

\* {"oem": ["AAA...A"]} with n characters
ChassisLongOem(n) == DictA("oem" :> ListV(<<StrV("str", Rep(65, n))>>))

\* "hex:": an entry that is not empty and holds no bytes
InternalNoBytes == TextA(HexPrefix)

\* "hex:0101aabb": 4 bytes, no multiple of 8
InternalShort == TextA(HexPrefix \o b2a_hex(<<1, 1, 170, 187>>))

\* "hex:0102aabb00000000": 8 bytes whose length byte says 16
InternalWrongLen == TextA(HexPrefix \o b2a_hex(<<1, 2, 170, 187, 0, 0, 0, 0>>))

\* "hex:010111c0c0c100ac": the chassis table of {"type": 17} as a hex blob
ChassisBlob == TextA(HexPrefix \o b2a_hex(<<1, 1, 17, 192, 192, 193, 0, 172>>))

\* {"type": 17, "partno": Hexadecimal("00...0")} with 2 * n hex digits
ChassisHexPartno(n) ==
    DictA(("type" :> IntV(17)) @@ ("partno" :> StrV("Hexadecimal", Rep(48, 2 * n))))

\* {"type": 17, "serial": ["A"]}: a list where a string is expected
ChassisListSerial ==
    DictA(("type" :> IntV(17)) @@ ("serial" :> ListV(<<StrV("str", <<65>>)>>)))

\* {"type": [17]}: a list where a byte is expected
ChassisListType == DictA("type" :> ListV(<<IntV(17)>>))

\* {"lang": 0, "date": [5]}: a list where a date is expected
BoardListDate == DictA(("lang" :> IntV(0)) @@ ("date" :> ListV(<<IntV(5)>>)))

\* {"lang": 1, "manufacturer": "\xe9\u0151", "serial": "S1", "oem": ["AB"]}:
\* strings without an encoding tag in a table whose language is not English
BoardForeign ==
    DictA(("lang" :> IntV(1))
          @@ ("manufacturer" :> StrV("str", <<233, 337>>))
          @@ ("serial" :> StrV("str", <<83, 49>>))
          @@ ("oem" :> ListV(<<StrV("str", <<65, 66>>)>>)))

\* {"name": "N1"}: a product without a language
ProductNoLang == DictA("name" :> StrV("str", <<78, 49>>))

\* {"name": "N1", "oem": ["AB"]}: a product without a language, with an
\* OEM item
ProductOem ==
    DictA(("name" :> StrV("str", <<78, 49>>)) @@ ("oem" :> ListV(<<StrV("str", <<65, 66>>)>>)))

MkTree(i, c, b, p, m) ==
    LET all == ("internal" :> i) @@ ("chassis" :> c) @@ ("board" :> b)
               @@ ("product" :> p) @@ ("multi" :> m)
    IN  [k \in {x \in DOMAIN all : all[x] # Absent} |-> all[k]]

Trees ==
    {MkTree(i, c, b, p, m) :
        i \in {Absent, InternalBlob},
        c \in {Absent, ChassisPlain, ChassisOem},
        b \in {Absent, BoardPlain, BoardTagged},
        p \in {Absent, ProductPlain},
        m \in {Absent, MultiBlob}}
    \cup {MkTree(Absent, c, Absent, p, Absent) :
            c \in {Absent, ChassisPlain},
            p \in {ProductLongName(n) : n \in 63..MaxNameLen}}
    \cup {MkTree(Absent, ChassisLongOem(n), Absent, Absent, Absent) : n \in 64..MaxNameLen}
    \cup {MkTree(Absent, DictA(EmptyMap), Absent, Absent, Absent)}
    \cup {MkTree(Absent, ChassisBogus, Absent, Absent, Absent),
          ("nonsense" :> ChassisPlain) @@ MkTree(Absent, ChassisPlain, Absent, Absent, Absent)}
    \cup {MkTree(i, c, Absent, Absent, Absent) :
            i \in {InternalNoBytes, InternalShort, InternalWrongLen},
            c \in {Absent, ChassisPlain}}
    \cup {MkTree(i, ChassisBlob, Absent, Absent, Absent) : i \in {Absent, InternalBlob}}
    \cup {MkTree(Absent, ChassisHexPartno(n), Absent, Absent, Absent) : n \in 63..64}
    \cup {MkTree(Absent, ChassisListSerial, Absent, Absent, Absent),
          MkTree(Absent, ChassisListType, Absent, Absent, Absent),
          MkTree(Absent, Absent, BoardListDate, Absent, Absent)}
    \cup {MkTree(Absent, c, BoardForeign, p, Absent) :
            c \in {Absent, ChassisOem},
            p \in {Absent, ProductNoLang, ProductPlain}}

\* The trees of a second call on an encoder.
AgainTrees ==
    {MkTree(Absent, Absent, Absent, Absent, Absent),
     MkTree(Absent, ChassisPlain, Absent, Absent, Absent),
     MkTree(Absent, Absent, BoardPlain, ProductPlain, Absent)}

NoPacked == [ok |-> FALSE, bytes |-> <<>>]

NoTree == [k \in {} |-> Absent]

\* The most bytes cut off the end of a buffer.
MaxCut == 8

NoDefect == [kind |-> "none", area |-> 0, n |-> 0]
NoEnc  == [exc |-> "none", msg |-> "", bytes |-> <<>>, log |-> <<>>]
NoLegacy ==
    [exc |-> "none", msg |-> "", data |-> <<>>, log |-> <<>>, cfg |-> NoTree, cur |-> EmptyMap,
     maps |-> [k \in {} |-> EmptyMap], self_data |-> <<>>]
NoAgain == [tree |-> NoTree, r |-> NoLegacy]
NoLegacyDecode == [FruDecoder_start EXCEPT !.exc = "none"]
NoOem == [impl |-> "", input |-> <<>>, pc |-> "idle", acc |-> <<>>, n |-> 0, last |-> 0, used |-> 0]
NoCalls == <<>>
NoFn == [f |-> "", pc |-> "idle", input |-> <<>>, enc |-> <<>>, dec |-> <<>>]
NoEngines == <<>>

(***************************************************************************)
(* The codec session: a tree is encoded; the bytes, as they are or with    *)
(* one defect, are decoded step by step under a policy; the tree of a      *)
(* first decode of unharmed bytes may be encoded and decoded again.        *)
(***************************************************************************)
Init ==
    /\ phase = "init"
    /\ config = NoTree
    /\ res = NoEnc
    /\ buf = <<>>
    /\ defect = NoDefect
    /\ sink = "strict"
    /\ dec = DecoderIdle
    /\ dec1 = DecoderIdle
    /\ legacy = NoLegacy
    /\ again = NoAgain
    /\ ldec = NoLegacyDecode
    /\ oem = NoOem
    /\ calls = NoCalls
    /\ engines = NoEngines
    /\ fn = NoFn
    /\ pk_pc = "idle"
    /\ pk_text = <<>>
    /\ pk_enc = NoPacked
    /\ pk_out = <<>>

\* encode(tree)
Encode ==
    /\ phase = "init"
    /\ \E tree \in Trees :
        /\ config' = tree
        /\ res' = encode(tree)
    /\ buf' = res'.bytes
    /\ phase' = "encoded"
    /\ UNCHANGED <<defect, sink, dec, dec1, pkvars, ovars, lvars>>

\* FruEncoder().encode(tree) of fruit.py
LegacyEncode ==
    /\ phase = "init"
    /\ \E tree \in Trees :
        /\ config' = tree
        /\ legacy' = FruEncoder_encode(tree)
    /\ phase' = "legacy"
    /\ UNCHANGED <<res, buf, defect, sink, dec, dec1, pkvars, ovars, again, ldec>>

\* encode(tree) once more on the FruEncoder of the last call
LegacyEncodeAgain ==
    /\ phase = "legacy"
    /\ \E tree \in AgainTrees :
        again' = [tree |-> tree, r |-> FruEncoder_call(legacy.self_data, tree)]
    /\ phase' = "legacy2"
    /\ UNCHANGED <<config, res, buf, defect, sink, dec, dec1, pkvars, ovars, legacy, ldec>>

Unharmed == phase = "encoded" /\ res.exc = "" /\ defect = NoDefect /\ dec1.pc = "idle"

\* The header's check sum byte is replaced by another value.
CorruptHeaderChecksum ==
    /\ Unharmed
    /\ buf' = [buf EXCEPT ![Len(FRU_SPEC) + 1] = (@ + 1) % 256]
    /\ defect' = [kind |-> "checksum", area |-> 0, n |-> 0]
    /\ UNCHANGED <<phase, config, res, sink, dec, dec1, pkvars, ovars, lvars>>

\* The last n bytes of the buffer are missing.
CutBuffer ==
    /\ Unharmed
    /\ \E n \in 1..MaxCut :
        /\ n <= Len(buf)
        /\ buf' = SubSeq(buf, 1, Len(buf) - n)
        /\ defect' = [kind |-> "cut", area |-> 0, n |-> n]
    /\ UNCHANGED <<phase, config, res, sink, dec, dec1, pkvars, ovars, lvars>>

\* The bytes the encoder writes for the first n entries of table spec.
TablePrefix(spec, m, n) ==
    EncodeEntries([spec EXCEPT !.entries = SubSeq(@, 1, n)], m, 1,
                  EncOk(<<1, 0>>, LangNone, <<>>)).bytes

\* A table of l bytes that ends after the entries in prefix: the length
\* byte, the 0xC1 byte where the next entry would start, zero bytes, and the
\* check sum.
EndedTable(prefix, l) ==
    Append([prefix EXCEPT ![2] = l \div 8] \o <<193>> \o Zeros(l - Len(prefix) - 2),
           checksum([prefix EXCEPT ![2] = l \div 8] \o <<193>>))

\* data[:off] + table + data[off + len(table):]
Overwrite(data, off, table) ==
    Slice(data, 0, off) \o table \o From(data, off + Len(table))

\* The table of area a (an index in FRU_SPEC) ends with a 0xC1 byte where
\* its n-th entry, a string, would start; the table keeps its length and its
\* check sum is right.
EndTableEarly ==
    /\ Unharmed
    /\ \E a \in 1..Len(FRU_SPEC) :
        /\ FRU_SPEC[a].kind = "InfoTable"
        /\ buf[a] # 0
        /\ \E n \in 1..Len(FRU_SPEC[a].entries) :
            /\ FRU_SPEC[a].entries[n].kind \in {"L1Str", "U16Str"}
            /\ buf' = Overwrite(buf, buf[a] * 8,
                        EndedTable(TablePrefix(FRU_SPEC[a], config[FRU_SPEC[a].name].m, n - 1),
                                   buf[buf[a] * 8 + 2] * 8))
            /\ defect' = [kind |-> "eot", area |-> a, n |-> n]
    /\ UNCHANGED <<phase, config, res, sink, dec, dec1, pkvars, ovars, lvars>>

\* The header with the byte of area a (an index in FRU_SPEC) set to v and
\* the check sum byte set to fit.
HeaderWith(data, a, v) ==
    Overwrite(data, 0,
              Append([Slice(data, 0, Len(FRU_SPEC)) EXCEPT ![a] = v],
                     checksum([Slice(data, 0, Len(FRU_SPEC)) EXCEPT ![a] = v])))

\* The header gives area a a lower offset than the encoder did, so that the
\* area starts where an earlier one does, or inside it; the header's check
\* sum is right.
LowerOffset ==
    /\ Unharmed
    /\ \E a \in 1..Len(FRU_SPEC) :
        /\ FRU_SPEC[a].kind \in {"InternalUse", "InfoTable", "MultiValue"}
        /\ \E v \in 1..(buf[a] - 1) :
            /\ buf' = HeaderWith(buf, a, v)
            /\ defect' = [kind |-> "overlap", area |-> a, n |-> v]
    /\ UNCHANGED <<phase, config, res, sink, dec, dec1, pkvars, ovars, lvars>>

\* An 8-bit text whose type/length byte declares 63 bytes, with the 2 bytes
\* "AB" behind it.
RunawayText == <<255, 65, 66>>

\* The n-th entry of the table of area a, a string, declares more bytes
\* than the table has: its 2 bytes of payload are followed by the 0xC1 byte,
\* zero bytes and the check sum; the table keeps its length and its check
\* sum is right.
LongString ==
    /\ Unharmed
    /\ \E a \in 1..Len(FRU_SPEC) :
        /\ FRU_SPEC[a].kind = "InfoTable"
        /\ buf[a] # 0
        /\ buf[buf[a] * 8 + 2] * 8 < 63
        /\ \E n \in 1..Len(FRU_SPEC[a].entries) :
            /\ FRU_SPEC[a].entries[n].kind \in {"L1Str", "U16Str"}
            /\ Len(TablePrefix(FRU_SPEC[a], config[FRU_SPEC[a].name].m, n - 1)) + 5
                    <= buf[buf[a] * 8 + 2] * 8
            /\ buf' = Overwrite(buf, buf[a] * 8,
                        EndedTable(TablePrefix(FRU_SPEC[a], config[FRU_SPEC[a].name].m, n - 1)
                                       \o RunawayText,
                                   buf[buf[a] * 8 + 2] * 8))
            /\ defect' = [kind |-> "longstr", area |-> a, n |-> n]
    /\ UNCHANGED <<phase, config, res, sink, dec, dec1, pkvars, ovars, lvars>>

\* The length byte of area a is 0.
ZeroLength ==
    /\ Unharmed
    /\ \E a \in 1..Len(FRU_SPEC) :
        /\ FRU_SPEC[a].kind \in {"InternalUse", "InfoTable"}
        /\ buf[a] # 0
        /\ buf' = [buf EXCEPT ![buf[a] * 8 + 2] = 0]
        /\ defect' = [kind |-> "zerolen", area |-> a, n |-> 0]
    /\ UNCHANGED <<phase, config, res, sink, dec, dec1, pkvars, ovars, lvars>>

\* A byte of the header that is no offset (an index in FRU_SPEC) holds
\* another value than the one the format asks for; the header's check sum is
\* either left as it was, and so wrong, or made to fit.
WrongHeaderByte ==
    /\ Unharmed
    /\ \E i \in 1..Len(FRU_SPEC) :
        /\ FRU_SPEC[i].kind = "AreaByte"
        /\ \/ buf' = [buf EXCEPT ![i] = FRU_SPEC[i].value + 1]
           \/ buf' = HeaderWith(buf, i, FRU_SPEC[i].value + 1)
        /\ defect' = [kind |-> "headerbyte", area |-> i, n |-> 0]
    /\ UNCHANGED <<phase, config, res, sink, dec, dec1, pkvars, ovars, lvars>>

\* The indices in data (from 1) of the padding of the table at offset off:
\* the zero bytes between the table's last other byte and its check sum.
PaddingOf(data, off) ==
    {i \in (off + 3)..(off + data[off + 2] * 8 - 1) :
        \A j \in i..(off + data[off + 2] * 8 - 1) : data[j] = 0}

\* The table at offset off with its last byte set to the check sum of the others.
TableResummed(data, off) ==
    [data EXCEPT ![off + data[off + 2] * 8] =
        checksum(Slice(data, off, off + data[off + 2] * 8 - 1))]

\* Every padding byte of the table of area a is 1; the table's check sum is
\* either left as it was, and so wrong, or made to fit.
SpoilPadding ==
    /\ Unharmed
    /\ \E a \in 1..Len(FRU_SPEC) :
        /\ FRU_SPEC[a].kind = "InfoTable"
        /\ buf[a] # 0
        /\ PaddingOf(buf, buf[a] * 8) # {}
        /\ \/ buf' = [i \in 1..Len(buf) |->
                        IF i \in PaddingOf(buf, buf[a] * 8) THEN 1 ELSE buf[i]]
           \/ buf' = TableResummed([i \in 1..Len(buf) |->
                        IF i \in PaddingOf(buf, buf[a] * 8) THEN 1 ELSE buf[i]], buf[a] * 8)
        /\ defect' = [kind |-> "padding", area |-> a, n |-> Cardinality(PaddingOf(buf, buf[a] * 8))]
    /\ UNCHANGED <<phase, config, res, sink, dec, dec1, pkvars, ovars, lvars>>

\* decode(buf, logger) of fruit.py
LegacyDecode ==
    /\ phase = "encoded"
    /\ res.exc = ""
    /\ dec1.pc = "idle"
    /\ \E p \in Policies :
        /\ sink' = p
        /\ ldec' = FruDecoder_decode(p, buf)
    /\ phase' = "ldecoded"
    /\ UNCHANGED <<config, res, buf, defect, dec, dec1, pkvars, ovars, legacy, again>>

\* decode(buf, logger) is called
DecodeCall ==
    /\ phase = "encoded"
    /\ res.exc = ""
    /\ \E p \in Policies : sink' = p
    /\ dec' = DecoderCalled
    /\ phase' = "decoding"
    /\ UNCHANGED <<config, res, buf, defect, dec1, pkvars, ovars, lvars>>

\* the call's next step: the header, one area, or the trailer and return
DecodeNext ==
    /\ phase = "decoding"
    /\ dec.pc \in {"header", "areas", "trailer"}
    /\ dec' = DecodeStep(sink, buf, dec)
    /\ UNCHANGED <<phase, config, res, buf, defect, sink, dec1, pkvars, ovars, lvars>>

\* encode(tree) for the tree a first decode of unharmed bytes returned
Reencode ==
    /\ phase = "decoding"
    /\ dec.pc = "done"
    /\ defect = NoDefect
    /\ dec1.pc = "idle"
    /\ dec1' = dec
    /\ config' = dec.ret
    /\ res' = encode(dec.ret)
    /\ buf' = res'.bytes
    /\ dec' = DecoderIdle
    /\ phase' = "encoded"
    /\ UNCHANGED <<defect, sink, pkvars, ovars, lvars>>

vars == <<pkvars, cvars, ovars>>

Next ==
    \/ Encode
    \/ LegacyEncode
    \/ LegacyEncodeAgain
    \/ CorruptHeaderChecksum
    \/ CutBuffer
    \/ EndTableEarly
    \/ LowerOffset
    \/ WrongHeaderByte
    \/ SpoilPadding
    \/ ZeroLength
    \/ LongString
    \/ LegacyDecode
    \/ DecodeCall
    \/ DecodeNext
    \/ Reencode

Spec == Init /\ [][Next]_vars

(***************************************************************************)
(* The packed_ascii session: a text is encoded, the bytes are decoded.     *)
(***************************************************************************)
MaxPackLen == 5

\* Code points on both edges of range(32, 96), one inside, one outside.
PackAlphabet == {32, 65, 95, 97}

RECURSIVE SeqsUpTo(_, _)
SeqsUpTo(S, n) ==
    IF n = 0 THEN {<<>>}
    ELSE LET shorter == SeqsUpTo(S, n - 1)
         IN  shorter \cup {Append(s, c) : s \in {x \in shorter : Len(x) = n - 1}, c \in S}

PackTexts == SeqsUpTo(PackAlphabet, MaxPackLen)


PkInit ==
    /\ pk_pc = "text"
    /\ pk_text \in PackTexts
    /\ pk_enc = NoPacked
    /\ pk_out = <<>>
    /\ phase = "idle"
    /\ config = NoTree
    /\ res = NoEnc
    /\ buf = <<>>
    /\ defect = NoDefect
    /\ sink = "strict"
    /\ dec = DecoderIdle
    /\ dec1 = DecoderIdle
    /\ legacy = NoLegacy
    /\ again = NoAgain
    /\ ldec = NoLegacyDecode
    /\ oem = NoOem
    /\ calls = NoCalls
    /\ engines = NoEngines
    /\ fn = NoFn

PkEncode ==
    /\ pk_pc = "text"
    /\ pk_enc' = PackedEncode(pk_text)
    /\ pk_pc' = "encoded"
    /\ UNCHANGED <<pk_text, pk_out, cvars, ovars>>

PkDecode ==
    /\ pk_pc = "encoded"
    /\ pk_enc.ok
    /\ pk_out' = PackedDecode(pk_enc.bytes)
    /\ pk_pc' = "decoded"
    /\ UNCHANGED <<pk_text, pk_enc, cvars, ovars>>

PkNext == PkEncode \/ PkDecode

SpecPacked == PkInit /\ [][PkNext]_vars

InPackedRange(text) == \A i \in 1..Len(text) : text[i] >= 32 /\ text[i] < 96

\* text followed by n space characters
PadSpaces(text, n) == text \o [i \in 1..n |-> 32]

\* C5 as stated: unpack(pack(s)) is s padded with spaces up to the next
\* multiple of 4 characters.
C5_PackedRoundTripPadded ==
    (pk_pc = "decoded" /\ InPackedRange(pk_text))
        => pk_out = PadSpaces(pk_text, (4 - (Len(pk_text) % 4)) % 4)

\* C5 amended: unpack(pack(s)) is s itself, except that a text one character
\* short of a multiple of 4 comes back with one space appended.
C5_PackedRoundTrip ==
    (pk_pc = "decoded" /\ InPackedRange(pk_text))
        => pk_out = PadSpaces(pk_text, IF Len(pk_text) % 4 = 3 THEN 1 ELSE 0)

\* C5 witness: a 3-character text in range came back as 4 characters.
C5_Witness ==
    /\ pk_pc = "decoded"
    /\ InPackedRange(pk_text)
    /\ Len(pk_text) = 3
    /\ Len(pk_out) = 4

(***************************************************************************)
(* What the claims speak of                                                *)
(***************************************************************************)
\* The areas a buffer's header points to, as indices in FRU_SPEC.
Emitted(b) == {a \in 1..Len(FRU_SPEC) : IsAreaOffset(FRU_SPEC[a]) /\ b[a] # 0}

\* The offset of area a in buffer b.
AreaOff(b, a) == b[a] * 8

\* Where area a ends in buffer b: at the next area, or at the end of b.
AreaEnd(b, a) ==
    IF \E x \in Emitted(b) : AreaOff(b, x) > AreaOff(b, a)
    THEN CHOOSE e \in {AreaOff(b, x) : x \in Emitted(b)} :
            /\ e > AreaOff(b, a)
            /\ \A x \in Emitted(b) : AreaOff(b, x) > AreaOff(b, a) => e <= AreaOff(b, x)
    ELSE Len(b)

\* The bytes area a declares as its own: length byte times 8 from its
\* offset; the multi-record area, which has no length byte, runs to the end.
DeclaredSpan(b, a) ==
    IF FRU_SPEC[a].kind = "MultiValue" THEN From(b, AreaOff(b, a))
    ELSE Slice(b, AreaOff(b, a), AreaOff(b, a) + b[AreaOff(b, a) + 2] * 8)

SumsToZero(bytes) == SumSeq(bytes) % 256 = 0

\* encode returned bytes
Encoded == phase \in {"encoded", "decoding"} /\ res.exc = ""

C3_EveryAreaAligned ==
    Encoded =>
        \A a \in Emitted(res.bytes) :
            (AreaEnd(res.bytes, a) - AreaOff(res.bytes, a)) % 8 = 0

\* C3 amended: in the bytes encode returns, the length of every emitted area
\* other than multi is a multiple of 8 (the multi-record blob, always the
\* last area, is emitted as given, whatever its length).
C3_AreasBeforeMultiAligned ==
    Encoded =>
        \A a \in Emitted(res.bytes) :
            FRU_SPEC[a].kind # "MultiValue"
                => (AreaEnd(res.bytes, a) - AreaOff(res.bytes, a)) % 8 = 0

\* C3 witness: encode returned bytes with structured tables in them, each a
\* multiple of 8 bytes long, and after them a multi-record area whose length
\* is no multiple of 8.
C3_Witness ==
    /\ Encoded
    /\ \E a \in Emitted(res.bytes) :
          /\ FRU_SPEC[a].kind = "InfoTable"
          /\ AreaEnd(res.bytes, a) > AreaOff(res.bytes, a)
    /\ \E a \in Emitted(res.bytes) :
          /\ FRU_SPEC[a].kind = "MultiValue"
          /\ (AreaEnd(res.bytes, a) - AreaOff(res.bytes, a)) % 8 # 0

\* The string values of a decoded tree: string fields and OEM list items.
StringsOf(tree) ==
    UNION {
        {tree[n].m[f] : f \in {g \in DOMAIN tree[n].m : tree[n].m[g].t = "str"}}
        \cup UNION {{tree[n].m[f].items[i] : i \in 1..Len(tree[n].m[f].items)} :
                        f \in {g \in DOMAIN tree[n].m : tree[n].m[g].t = "list"}}
        : n \in {x \in DOMAIN tree : tree[x].t = "dict"}}

EncodingTags == {"hex", "bcd", "packed", "latin1", "ucs2le"}

\* The tree {chassis: {type: 17, serial: "SN123"}} was encoded and the bytes
\* decoded as they were.
ChassisScenario ==
    /\ config = MkTree(Absent, ChassisPlain, Absent, Absent, Absent)
    /\ dec1.pc = "idle"
    /\ defect = NoDefect
    /\ phase = "decoding"
    /\ dec.pc = "done"

\* C4: every string value decode returns carries an encoding tag among hex,
\* bcd, packed, latin1, ucs2le; decoding the bytes encode returns for
\* {chassis: {type: 17, serial: "SN123"}} gives type 17 and serial "SN123"
\* tagged latin1.
C4_StringsCarryEncodingTag ==
    /\ (phase = "decoding" /\ dec.pc = "done")
          => \A v \in StringsOf(dec.ret) : EncodingOf(v.cls) \in EncodingTags
    /\ ChassisScenario
          => /\ dec.ret["chassis"].m["type"] = IntV(17)
             /\ dec.ret["chassis"].m["serial"].s = <<83, 78, 49, 50, 51>>
             /\ EncodingOf(dec.ret["chassis"].m["serial"].cls) = "latin1"

\* C1: a compliant buffer decodes to a tree, encode of that tree succeeds,
\* and decoding the new bytes gives the same areas, field values and
\* encoding tags.  The buffers are the ones encode returns, unharmed.
C1_RoundTrip ==
    /\ (phase = "decoding" /\ defect = NoDefect) => dec.pc # "failed"
    /\ dec1.pc = "done" => res.exc = ""
    /\ (dec1.pc = "done" /\ phase = "decoding" /\ dec.pc = "done") => dec.ret = dec1.ret

\* The decode call has finished the iteration of "for a in areas" for area a.
Decoded(a) == \E i \in 1..dec.k : dec.areas[i].spec = a

\* The decode call raised in the iteration for area a.
FailedAt(a) ==
    /\ dec.pc = "failed"
    /\ dec.k < Len(dec.areas)
    /\ dec.areas[dec.k + 1].spec = a

\* Entry e of decoded table m holds the value of an entry left out.
IsDefault(m, e) ==
    /\ e.name \in DOMAIN m
    /\ CASE m[e.name].t = "str"  -> m[e.name].s = <<>>
         [] m[e.name].t = "list" -> m[e.name].items = <<>>
         [] OTHER                -> FALSE

\* C6: decoding an InfoTable in which a 0xC1 byte stands where a predefined
\* string field would start does not fail; every field of the table from
\* that one on has its default value, and a warning about the table is
\* logged.
C6_EndOfTableTolerated ==
    (phase = "decoding" /\ defect.kind = "eot") =>
        /\ ~FailedAt(defect.area)
        /\ Decoded(defect.area) =>
              /\ FRU_SPEC[defect.area].name \in DOMAIN dec.ret
              /\ \A n \in defect.n..Len(FRU_SPEC[defect.area].entries) :
                    IsDefault(dec.ret[FRU_SPEC[defect.area].name].m,
                              FRU_SPEC[defect.area].entries[n])
              /\ \E i \in 1..Len(dec.log) :
                    /\ dec.log[i].sev = "warning"
                    /\ dec.log[i].area = FRU_SPEC[defect.area].name

\* The index in FRU_SPEC of the board table.
BoardArea == CHOOSE a \in 1..Len(FRU_SPEC) : FRU_SPEC[a].name = "board"

\* C7: when a 0xC1 byte ends the predefined fields of the board table early,
\* every area after board (product, multi) is still decoded, to the value it
\* has when the bytes encode returned are decoded as they are.
C7_BoardTruncationLocal ==
    (phase = "decoding" /\ defect.kind = "eot" /\ defect.area = BoardArea
        /\ dec.pc \in {"done", "failed"}) =>
        \A a \in Emitted(buf) :
            AreaOff(buf, a) > AreaOff(buf, BoardArea) =>
                /\ FRU_SPEC[a].name \in DOMAIN dec.ret
                /\ FRU_SPEC[a].name \in DOMAIN decode(sink, res.bytes).ret
                /\ dec.ret[FRU_SPEC[a].name] = decode(sink, res.bytes).ret[FRU_SPEC[a].name]

\* The diagnostic of decode_header about the check sum.
ChecksumDiag ==
    DiagAt("decodererror", "Base header has wrong checksum", "header", "", Len(FRU_SPEC))

\* C8: for a buffer whose only defect is a wrong check sum byte in the base
\* header, decode under the strict policy fails with a DecoderError that
\* names the check sum; under the tolerant policy it returns the value tree
\* and exactly the check sum diagnostic is recorded.
C8_HeaderChecksumByPolicy ==
    (phase = "decoding" /\ defect.kind = "checksum") =>
        /\ (sink = "strict" /\ dec.pc # "header") =>
              /\ dec.pc = "failed"
              /\ dec.exc = "DecoderError"
              /\ dec.msg = "Base header has wrong checksum"
        /\ sink = "tolerant" =>
              /\ dec.pc # "failed"
              /\ dec.pc = "done" => dec.log = <<ChecksumDiag>>

\* Area a of buffer b has a length byte that declares more bytes than b has
\* from the area's offset on.
DeclaresTooMuch(b, a) ==
    /\ FRU_SPEC[a].kind \in {"InfoTable", "InternalUse"}
    /\ AreaOff(b, a) + 2 <= Len(b)
    /\ b[AreaOff(b, a) + 2] * 8 > Len(b) - AreaOff(b, a)

\* C9: if the length byte of an InfoTable or internal-use area declares more
\* bytes than remain in the buffer from the area's offset, decode fails with
\* a DecoderError under every policy and returns no value tree.
C9_PrematureEndFails ==
    (phase = "decoding" /\ dec.pc \in {"done", "failed"} /\ Len(buf) >= Len(FRU_SPEC) + 1
        /\ \E a \in Emitted(buf) : DeclaresTooMuch(buf, a)) =>
        /\ dec.pc = "failed"
        /\ dec.exc = "DecoderError"

\* A plain string of more than 64 characters: its payload is more than 64
\* bytes in Latin-1, in 16-bit text and in ASCII.
TooLong(v) == v.t = "str" /\ v.cls = "str" /\ Len(v.s) > 64

\* The tree has a string field or an OEM item that is too long.
HasTooLong(tree) ==
    \E a \in DOMAIN tree :
        /\ tree[a].t = "dict"
        /\ \E f \in DOMAIN tree[a].m :
            \/ TooLong(tree[a].m[f])
            \/ /\ tree[a].m[f].t = "list"
               /\ \E i \in 1..Len(tree[a].m[f].items) : TooLong(tree[a].m[f].items[i])

\* C10: a string field or OEM item whose payload is longer than 64 bytes
\* makes encoding fail with an EncoderError, and no bytes are produced; so
\* for encode of the library and for FruEncoder.encode of fruit.py.
C10_LongStringRefused ==
    /\ (phase = "encoded" /\ dec1.pc = "idle" /\ HasTooLong(config))
            => (res.exc = "EncoderError" /\ res.bytes = <<>>)
    /\ (phase = "legacy" /\ HasTooLong(config))
            => (legacy.exc = "EncoderError" /\ legacy.data = <<>>)

\* C11: an encode call returns bytes or fails with an EncoderError; no
\* assertion failure and no other exception leaves encode, whatever areas
\* and values the tree holds.
C11_EncodeFailsOnlyWithEncoderError ==
    (phase = "encoded") => res.exc \in {"", "EncoderError"}

\* The names of the areas and of the header mapping.
KnownAreas == {"header"} \cup {FRU_SPEC[a].name : a \in {x \in 1..Len(FRU_SPEC) : IsAreaOffset(FRU_SPEC[x])}}

\* The names of the fields of table a, none for an area that is no table.
KnownFields(a) ==
    UNION {{FRU_SPEC[x].entries[i].name : i \in 1..Len(FRU_SPEC[x].entries)} :
            x \in {y \in 1..Len(FRU_SPEC) : FRU_SPEC[y].kind = "InfoTable" /\ FRU_SPEC[y].name = a}}

\* The tree has an area no specification defines, or a table of it has such
\* a field.
HasUnknownKey(tree) ==
    \E a \in DOMAIN tree :
        \/ a \notin KnownAreas
        \/ /\ tree[a].t = "dict"
           /\ a # "header"
           /\ \E f \in DOMAIN tree[a].m : f \notin KnownFields(a)

\* C12: for a tree with a key the specification does not define (an unknown
\* area, an unknown field of a table), encode fails with an error that
\* lists the unknown entries, and returns no bytes; so for encode of the
\* library and for FruEncoder.encode of fruit.py.
C12_UnknownKeysRefused ==
    /\ (phase = "encoded" /\ dec1.pc = "idle" /\ HasUnknownKey(config))
            => (res.exc = "EncoderError" /\ res.bytes = <<>>)
    /\ (phase = "legacy" /\ HasUnknownKey(config))
            => /\ legacy.exc = "EncoderError"
               /\ legacy.msg \in {"Unknown configuration entries", "Invalid configuration entries"}
               /\ legacy.data = <<>>

\* C13: encode only reads the caller's tree: after the call, returned or
\* raised, the tree and every area mapping of it hold the keys and values
\* they held before.  (Encoder.encode of the library has no statement that
\* writes to the tree; FruEncoder.encode of fruit.py is the one that has.)
C13_EncodeReadsOnly ==
    (phase = "legacy") =>
        /\ legacy.cfg = config
        /\ \A a \in DOMAIN legacy.maps : legacy.maps[a] = config[a].m

\* C18: an engine keeps nothing from one call to the next: a call with
\* tree x on a FruEncoder that has made a call before returns what a new
\* FruEncoder returns for x.
C18_EngineKeepsNothing ==
    (phase = "legacy2") =>
        /\ again.r.exc = FruEncoder_encode(again.tree).exc
        /\ again.r.data = FruEncoder_encode(again.tree).data

\* C20: for a compliant table, one with a non-empty OEM list included, the
\* decoder's cursor ends on the end of the predefined region: the assertion
\* of decode_info_table_inner never fails.  The tables are the ones encode
\* returns, unharmed.
C20_CursorLandsOnEnd ==
    (phase = "decoding" /\ defect = NoDefect /\ dec1.pc = "idle") => dec.exc # "AssertionError"


\* The decode call of the library stands before an area, or has failed at
\* one, whose offset is below the cursor.
BelowCursor ==
    /\ dec.pc \in {"areas", "failed"}
    /\ dec.k < Len(dec.areas)
    /\ dec.areas[dec.k + 1].offset < dec.pos

\* C14: an area whose offset is below the running cursor makes decode fail
\* with a DecoderError under every policy: the library's call does not get
\* past such an area and fails there with a DecoderError, and the script's
\* decoder never hands the overlap to its logger and goes on.
C14_OverlapAlwaysFails ==
    /\ (phase = "decoding" /\ BelowCursor /\ dec.pc = "failed") =>
            /\ dec.exc = "DecoderError"
            /\ dec.msg = "Area overlaps area"
    /\ (phase = "decoding" /\ dec.pc \in {"areas", "trailer", "done"}) =>
            \A i \in 2..dec.k : dec.areas[i - 1].offset < dec.areas[i].offset
    /\ (phase = "ldecoded") =>
            \A i \in 1..Len(ldec.log) : ldec.log[i].msg # "Table overlaps previous data"

\* C15: for a buffer whose only defect is a length byte of 0 in a declared
\* InfoTable or internal-use area, decode fails with a DecoderError under
\* every policy and no tree holds that area.
C15_ZeroLengthFails ==
    /\ (phase = "decoding" /\ defect.kind = "zerolen") =>
            /\ FRU_SPEC[defect.area].name \notin DOMAIN dec.ret
            /\ dec.pc # "done"
            /\ FailedAt(defect.area) => dec.exc = "DecoderError"
    /\ (phase = "ldecoded" /\ defect.kind = "zerolen"
            /\ FRU_SPEC[defect.area].kind = "InfoTable") =>
            /\ ldec.exc # ""
            /\ FRU_SPEC[defect.area].name \in DOMAIN ldec.output => ldec.exc = "DecoderError"

\* C16: within one decode call the diagnostics are delivered in
\* non-decreasing order of the offsets of the bytes they are about.
C16_DiagnosticsInOffsetOrder ==
    (phase = "decoding") =>
        \A i \in 1..Len(dec.log) : \A j \in 1..Len(dec.log) :
            i < j => dec.log[i].off <= dec.log[j].off

\* The diagnostic is about a check sum.
IsSumDiag(d) == d.msg \in {"Base header has wrong checksum", "Invalid check sum for table"}

\* The diagnostic is one of the scan for the end of a table's fields.
IsPaddingDiag(d) == d.msg \in {"Table padding is nonzero", "Table has too many padding bytes"}

\* C16 (amended): within one decode call the diagnostics are delivered in
\* non-decreasing order of the offsets of the bytes they are about, except
\* inside the header and inside one table: there the check sum diagnostic is
\* delivered before the diagnostics about the padding and the fields, and the
\* padding warnings, found scanning backwards, before those about the fields.
C16_DiagnosticsByRegion ==
    (phase = "decoding") =>
        \A i \in 1..Len(dec.log) : \A j \in 1..Len(dec.log) :
            i < j =>
                /\ \/ dec.log[i].off <= dec.log[j].off
                   \/ /\ dec.log[i].area = dec.log[j].area
                      /\ IsSumDiag(dec.log[i]) \/ IsPaddingDiag(dec.log[i])
                /\ (IsSumDiag(dec.log[j]) /\ dec.log[i].area = dec.log[j].area) =>
                      /\ ~IsPaddingDiag(dec.log[i])
                      /\ dec.log[i].field = ""

\* A decode call has returned, after a table's check sum diagnostic and a
\* later warning about a padding byte that lies before the check sum, and
\* after two padding warnings, the later about the earlier byte.
C16_Witness ==
    /\ phase = "decoding"
    /\ dec.pc = "done"
    /\ defect.kind = "padding"
    /\ \E i \in 1..Len(dec.log) : \E j \in 1..Len(dec.log) :
        /\ i < j
        /\ IsSumDiag(dec.log[i])
        /\ IsPaddingDiag(dec.log[j])
        /\ dec.log[i].area = dec.log[j].area
        /\ dec.log[j].off < dec.log[i].off
    /\ \E i \in 1..Len(dec.log) : \E j \in 1..Len(dec.log) :
        /\ i < j
        /\ IsPaddingDiag(dec.log[i])
        /\ IsPaddingDiag(dec.log[j])
        /\ dec.log[j].off < dec.log[i].off

(***************************************************************************)
(* The OEM-list loops turn by turn: "while len(data)" of                   *)
(* Decoder.decode_oem and "while True" of OemStr.decode of fruit.py, on    *)
(* the bytes of an OEM region.                                             *)
(***************************************************************************)
MaxOemLen == 3
MaxTurns == 8

\* Type/length bytes of every kind: binary of length 0, 8-bit text of
\* length 0, 1 (the end-of-table byte) and 2, and a payload byte.
OemAlphabet == {0, 65, 192, 193, 194}

OemInputs == SeqsUpTo(OemAlphabet, MaxOemLen)

\* The state of the codec session and of the packed_ascii session while
\* another specification runs.
OthersIdle ==
    /\ pk_pc = "idle"
    /\ pk_text = <<>>
    /\ pk_enc = NoPacked
    /\ pk_out = <<>>
    /\ phase = "idle"
    /\ config = NoTree
    /\ res = NoEnc
    /\ buf = <<>>
    /\ defect = NoDefect
    /\ sink = "strict"
    /\ dec = DecoderIdle
    /\ dec1 = DecoderIdle
    /\ legacy = NoLegacy
    /\ again = NoAgain
    /\ ldec = NoLegacyDecode

\* out = []; the loop is entered / pos = 0; val = []
OemStart(impl, input) ==
    [impl |-> impl, input |-> input, pc |-> "loop",
     acc |-> IF impl = "lib"
             THEN [data |-> input, out |-> <<>>, log |-> <<>>, at |-> 0]
             ELSE OemStr_start,
     n |-> 0, last |-> 0, used |-> 0]

OemInit ==
    /\ \E impl \in {"lib", "legacy"}, input \in OemInputs : oem = OemStart(impl, input)
    /\ calls = NoCalls
    /\ engines = NoEngines
    /\ fn = NoFn
    /\ OthersIdle

\* The record of a turn that took the loop from acc to next: n turns so
\* far, the bytes the last turn consumed, the bytes consumed in all.
OemTurned(o, next, pc, eaten) ==
    [o EXCEPT !.acc = next, !.pc = pc, !.n = @ + 1, !.last = eaten, !.used = @ + eaten]

\* Decoder.decode_oem: the test of "while len(data)" and, when it holds, one
\* turn of the loop; the method returns when it does not.
OemTurnLib ==
    /\ oem.pc = "loop"
    /\ oem.impl = "lib"
    /\ oem.n < MaxTurns
    /\ IF Len(oem.acc.data) = 0
       THEN oem' = [oem EXCEPT !.pc = "returned"]
       ELSE \E next \in {OemJoin(oem.acc, decode_str2("chassis", U16Str(OemName(Len(oem.acc.out) + 1)),
                                                      oem.acc.data, 0, oem.acc.at))} :
               oem' = OemTurned(oem, next, "loop", Len(oem.acc.data) - Len(next.data))
    /\ UNCHANGED <<pkvars, cvars, calls, engines, fn>>

\* OemStr.decode of fruit.py: one turn of "while True".
OemTurnLegacy ==
    /\ oem.pc = "loop"
    /\ oem.impl = "legacy"
    /\ oem.n < MaxTurns
    /\ \E next \in {OemStr_next(oem.acc, oem.input, "chassis")} :
          oem' = OemTurned(oem, next,
                           IF next.exc = "return" THEN "returned"
                           ELSE IF next.exc # "" THEN "raised" ELSE "loop",
                           next.pos - oem.acc.pos)
    /\ UNCHANGED <<pkvars, cvars, calls, engines, fn>>

OemNext == OemTurnLib \/ OemTurnLegacy

\* A call runs until it returns or raises: nothing else runs in its thread.
SpecOem == OemInit /\ [][OemNext]_vars /\ WF_vars(OemNext)

\* Where a loop that returned stopped: Decoder.decode_oem at the end of the
\* data, OemStr.decode behind the end-of-table byte.
OemEndedInData(o) ==
    IF o.impl = "lib" THEN o.used = Len(o.input)
    ELSE o.used >= 1 /\ o.input[o.used] = 193

\* C19: the loop that decodes an OEM list ends on every input: every turn
\* that does not raise consumes at least one byte of the region, so the
\* turns are no more than the bytes of the region (which is shorter than its
\* table) but for the one turn that raises; the loop never consumes more than
\* the region holds, a loop that returns does so at the end-of-table byte or
\* at the end of the data, and every call returns or raises.
C19_OemLoopTerminates ==
    /\ [](oem.pc # "idle" =>
            /\ (oem.n >= 1 /\ oem.pc # "raised") => oem.last >= 1
            /\ oem.n <= oem.used + (IF oem.pc = "raised" THEN 1 ELSE 0)
            /\ oem.used <= Len(oem.input)
            /\ oem.pc = "returned" => OemEndedInData(oem))
    /\ <>(oem.pc \in {"returned", "raised"})

\* C19 witness: a loop returned after two turns or more, one of which read
\* an empty string, having consumed the whole region.
C19_Witness ==
    /\ oem.pc = "returned"
    /\ oem.n >= 2
    /\ oem.used = Len(oem.input)
    /\ \E i \in 1..Len(oem.input) : oem.input[i] = 192

(***************************************************************************)
(* Two calls of the library at once: decode(data_in, logger) and           *)
(* encode(cfg, logger) each build their own Decoder or Encoder, whose lang *)
(* and msgprefix are written when a table is entered, by its Lang entry    *)
(* and when the table is left, and read by the entry decoders and          *)
(* encoders.  A call is                                                    *)
(*   [kind, policy, data, cfg, pc, d, st, k, tab, out, mid]                *)
(* d the state of Decoder.decode, st and k those of the loop over areas of *)
(* Encoder.encode, tab the table the call is in, out what encode returned, *)
(* mid whether the call worked on an entry while the other call was inside *)
(* a table.  The calls take turns at every entry of a table.               *)
(***************************************************************************)
\* d = Decoder(logger) / e = Encoder(logger): the object call c works on.
EngineOfShared(c) == IF c = 2 THEN 1 ELSE c

EngineOf(c) == c

\* lang = None, msgprefix = None of the class; no call has written them.
EngineNew == [lang |-> LangNone, msgprefix |-> "", writer |-> 0]

NoTable == [open |-> FALSE, i |-> 0, l |-> 0, pre |-> <<>>, acc |-> <<>>]

PairTrees ==
    {MkTree(Absent, ChassisPlain, BoardTagged, Absent, Absent),
     MkTree(Absent, Absent, BoardPlain, ProductPlain, Absent),
     MkTree(InternalBlob, ChassisOem, Absent, Absent, Absent),
     MkTree(Absent, Absent, BoardTagged, ProductOem, Absent),
     MkTree(Absent, Absent, BoardForeign, Absent, Absent)}

\* What encode returns for the trees, and one of these cut short.
PairBuffers ==
    {encode(t).bytes : t \in PairTrees}
    \cup {Slice(encode(MkTree(Absent, Absent, BoardPlain, ProductPlain, Absent)).bytes, 0, 24)}

CallDecode(policy, data) ==
    [kind |-> "decode", policy |-> policy, data |-> data, cfg |-> NoTree, pc |-> "run",
     d |-> DecoderCalled, st |-> <<>>, k |-> 0, tab |-> NoTable, out |-> NoEnc, mid |-> FALSE]

CallEncode(cfg) ==
    [kind |-> "encode", policy |-> "strict", data |-> <<>>, cfg |-> cfg, pc |-> "header",
     d |-> DecoderIdle, st |-> <<>>, k |-> 0, tab |-> NoTable, out |-> NoEnc, mid |-> FALSE]

PairInit ==
    /\ \/ \E p \in Policies, b1 \in PairBuffers, b2 \in PairBuffers :
            calls = <<CallDecode(p, b1), CallDecode(p, b2)>>
       \/ \E t1 \in PairTrees, t2 \in PairTrees :
            calls = <<CallEncode(t1), CallEncode(t2)>>
    /\ engines = <<EngineNew, EngineNew>>
    /\ fn = NoFn
    /\ oem = NoOem
    /\ OthersIdle

\* The area the loop of Decoder.decode is at.
AreaAt(d) == d.areas[d.k + 1]

\* decode_info_table up to the call of decode_info_table_inner, and the
\* head of that: [exc, msg, l, eot, log].  sc is what the scan left.
TableOpened(spec, data, off, sc) ==
    [exc |-> "", msg |-> "", l |-> Len(data), eot |-> sc.eot,
     log |-> IF Len(data) - sc.eot > 9
             THEN Append(sc.log, DiagAt("warning", "Table has too many padding bytes",
                                        spec.name, "", off + sc.eot))
             ELSE sc.log]

\* The check of the sum (c = [raised, log]) and the scan.
TableOpenScan(spec, data, off, c) ==
    IF c.raised
    THEN [exc |-> "DecoderError", msg |-> "Invalid check sum for table", l |-> 0, eot |-> 0,
          log |-> c.log]
    ELSE TableOpened(spec, data, off,
                     ScanEot(spec, data, off, [eot |-> Len(data) - 2, log |-> c.log]))

\* decode_info_table after decode_area_len returned al, on data0[:l].
TableOpenLen(policy, spec, data0, off, al) ==
    IF al.exc # "" THEN [exc |-> al.exc, msg |-> al.msg, l |-> 0, eot |-> 0, log |-> al.log]
    ELSE TableOpenScan(spec, Slice(data0, 0, al.l), off,
            IF SumSeq(Slice(data0, 0, al.l)) % 256 # 0
            THEN decodererror(policy, al.log,
                    DiagAt("decodererror", "Invalid check sum for table", spec.name, "",
                           off + al.l - 1))
            ELSE NotRaised(al.log))

TableOpen(policy, spec, data0, off) ==
    TableOpenLen(policy, spec, data0, off, decode_area_len(policy, spec, data0, off))

\* The table call cl is in after decode_info_table got as far as o.
DecodeTableEntered(cl, o) ==
    [cl EXCEPT !.tab = [open |-> TRUE, i |-> 1, l |-> o.l, pre |-> o.log,
                        acc |-> [exc |-> "", msg |-> "", field |-> "",
                                 data |-> Slice(From(cl.data, AreaAt(cl.d).offset), 2, o.eot),
                                 out |-> EmptyMap, lang |-> 0, log |-> <<>>,
                                 at |-> AreaAt(cl.d).offset + 2]]]

\* decode_header and the sort of the areas
PairDecodeHeader(c) ==
    /\ calls[c].kind = "decode"
    /\ calls[c].d.pc = "header"
    /\ calls' = [calls EXCEPT ![c].d = DecodeHeaderStep(calls[c].policy, calls[c].data, @)]
    /\ UNCHANGED <<engines, oem, fn, pkvars, cvars>>

\* Whether the next area of the loop is a table that does not overlap.
AtTable(cl) ==
    /\ cl.d.pc = "areas"
    /\ ~cl.tab.open
    /\ FRU_SPEC[AreaAt(cl.d).spec].kind = "InfoTable"
    /\ cl.d.pos <= AreaAt(cl.d).offset

\* An iteration of "for a in areas" that enters no table: the overlap, the
\* internal use area, the multi record area.
PairDecodeArea(c) ==
    /\ calls[c].kind = "decode"
    /\ calls[c].d.pc = "areas"
    /\ ~calls[c].tab.open
    /\ ~AtTable(calls[c])
    /\ calls' = [calls EXCEPT ![c].d = DecodeAreaStep(calls[c].policy, calls[c].data, @)]
    /\ UNCHANGED <<engines, oem, fn, pkvars, cvars>>

\* decode_info_table up to the loop of decode_info_table_inner:
\* self.msgprefix = spec.name; self.lang = 0
PairTableOpen(c) ==
    /\ calls[c].kind = "decode"
    /\ AtTable(calls[c])
    /\ \E o \in {TableOpen(calls[c].policy, FRU_SPEC[AreaAt(calls[c].d).spec],
                           From(calls[c].data, AreaAt(calls[c].d).offset),
                           AreaAt(calls[c].d).offset)} :
          IF o.exc # ""
          THEN /\ calls' = [calls EXCEPT ![c].d =
                                AreaReturn(@, AreaAt(@), GapLog(@, AreaAt(@)),
                                           ADecRaise(o.exc, o.msg, "", o.log))]
               /\ UNCHANGED engines
          ELSE /\ calls' = [calls EXCEPT ![c] = DecodeTableEntered(@, o)]
               /\ engines' = [engines EXCEPT ![EngineOf(c)] =
                                [lang |-> 0, msgprefix |-> FRU_SPEC[AreaAt(calls[c].d).spec].name,
                                 writer |-> c]]
    /\ UNCHANGED <<oem, fn, pkvars, cvars>>

\* The entry a call inside a table is at.
EntryAt(cl) ==
    IF cl.kind = "decode" THEN FRU_SPEC[AreaAt(cl.d).spec].entries[cl.tab.i]
    ELSE FRU_SPEC[EncoderAreas[cl.k]].entries[cl.tab.i]

\* The index in FRU_SPEC of the table a call is in.
EntryTable(cl) == IF cl.kind = "decode" THEN AreaAt(cl.d).spec ELSE EncoderAreas[cl.k]

EntriesLeft(cl) ==
    /\ cl.tab.open
    /\ cl.tab.acc.exc = ""
    /\ cl.tab.i <= Len(IF cl.kind = "decode" THEN FRU_SPEC[AreaAt(cl.d).spec].entries
                       ELSE FRU_SPEC[EncoderAreas[cl.k]].entries)

\* One iteration of the loop of decode_info_table_inner: the decoder reads
\* self.msgprefix and self.lang; self.lang = v after a Lang entry.
PairDecodeEntry(c) ==
    /\ calls[c].kind = "decode"
    /\ EntriesLeft(calls[c])
    /\ \E next \in {EntryJoin(calls[c].tab.acc, EntryAt(calls[c]),
                              DecodeEntry(engines[EngineOf(c)].msgprefix, EntryAt(calls[c]),
                                          calls[c].tab.acc.data, engines[EngineOf(c)].lang,
                                          calls[c].tab.acc.at))} :
          /\ calls' = [calls EXCEPT ![c].tab.acc = next, ![c].tab.i = @ + 1,
                                    ![c].mid = @ \/ calls[3 - c].tab.open]
          /\ engines' = IF EntryAt(calls[c]).kind = "Lang" /\ next.exc = ""
                        THEN [engines EXCEPT ![EngineOf(c)].lang = next.lang,
                                             ![EngineOf(c)].writer = c]
                        ELSE engines
    /\ UNCHANGED <<oem, fn, pkvars, cvars>>

\* The end of decode_info_table_inner (assert len(data) == 0;
\* self.msgprefix = None; self.lang = None) and of decode_info_table, and
\* "pos = a.offset + area_len; ret[spec.name] = area_data" of the caller.
PairTableClose(c) ==
    /\ calls[c].kind = "decode"
    /\ calls[c].tab.open
    /\ ~EntriesLeft(calls[c])
    /\ calls' = [calls EXCEPT ![c].tab = NoTable,
                              ![c].d = AreaReturn(@, AreaAt(@), GapLog(@, AreaAt(@)),
                                           TableReturn(calls[c].tab.l, calls[c].tab.pre,
                                                       InnerReturn(calls[c].tab.acc)))]
    /\ engines' = IF InnerReturn(calls[c].tab.acc).exc = ""
                  THEN [engines EXCEPT ![EngineOf(c)] = [EngineNew EXCEPT !.writer = c]]
                  ELSE engines
    /\ UNCHANGED <<oem, fn, pkvars, cvars>>

\* The bytes after the last area, and the return.
PairDecodeTrailer(c) ==
    /\ calls[c].kind = "decode"
    /\ calls[c].d.pc = "trailer"
    /\ calls' = [calls EXCEPT ![c].d = DecodeTrailerStep(calls[c].policy, calls[c].data, @)]
    /\ UNCHANGED <<engines, oem, fn, pkvars, cvars>>

\* Encoder.encode up to its loop over the areas, h what prepare_header did.
EncodeEntered(cl, h) ==
    IF h.exc # "" THEN [cl EXCEPT !.pc = "done", !.out = h]
    ELSE [cl EXCEPT !.pc = "areas", !.k = 1,
                    !.st = [exc |-> "", msg |-> "", ret |-> h.bytes, i |-> 0, log |-> <<>>]]

PairEncodeHeader(c) ==
    /\ calls[c].kind = "encode"
    /\ calls[c].pc = "header"
    /\ calls' = [calls EXCEPT ![c] =
                    EncodeEntered(@, prepare_header(IF "header" \in DOMAIN calls[c].cfg
                                                    THEN calls[c].cfg["header"]
                                                    ELSE DictA(EmptyMap)))]
    /\ UNCHANGED <<engines, oem, fn, pkvars, cvars>>

\* Whether the loop over the areas goes on.
InAreas(cl) ==
    /\ cl.kind = "encode"
    /\ cl.pc = "areas"
    /\ ~cl.tab.open
    /\ cl.k <= Len(EncoderAreas)
    /\ cl.st.exc = ""

\* Whether the iteration for the k-th area calls encode_info_table, and
\* that enters its loop.
AtEncodeTable(cl) ==
    /\ InAreas(cl)
    /\ Len(cl.st.ret) % 8 = 0
    /\ FRU_SPEC[EncoderAreas[cl.k]].kind = "InfoTable"
    /\ FRU_SPEC[EncoderAreas[cl.k]].name \in DOMAIN cl.cfg
    /\ cl.cfg[FRU_SPEC[EncoderAreas[cl.k]].name].t = "dict"
    /\ AreaLen(cl.cfg[FRU_SPEC[EncoderAreas[cl.k]].name]) # 0

\* An iteration of the loop over the areas that enters no table.
PairEncodeArea(c) ==
    /\ InAreas(calls[c])
    /\ ~AtEncodeTable(calls[c])
    /\ calls' = [calls EXCEPT ![c].st = EncodeAreaStep(calls[c].cfg, calls[c].k, @),
                              ![c].k = @ + 1]
    /\ UNCHANGED <<engines, oem, fn, pkvars, cvars>>

\* encode_info_table up to its loop: self.lang = None;
\* self.msgprefix = spec.name; ret = bytearray([1, 0])
PairEncodeOpen(c) ==
    /\ AtEncodeTable(calls[c])
    /\ calls' = [calls EXCEPT ![c].tab = [open |-> TRUE, i |-> 1, l |-> 0, pre |-> <<>>,
                                          acc |-> EncOk(<<1, 0>>, LangNone, <<>>)]]
    /\ engines' = [engines EXCEPT ![EngineOf(c)] =
                     [lang |-> LangNone, msgprefix |-> FRU_SPEC[EncoderAreas[calls[c].k]].name,
                      writer |-> c]]
    /\ UNCHANGED <<oem, fn, pkvars, cvars>>

\* One iteration of the loop of encode_info_table: the encoder reads
\* self.msgprefix and self.lang, encode_lang writes self.lang.
PairEncodeEntry(c) ==
    /\ calls[c].kind = "encode"
    /\ EntriesLeft(calls[c])
    /\ \E r \in {EncodeEntry(engines[EngineOf(c)].msgprefix, EntryAt(calls[c]),
                             Get(calls[c].cfg[FRU_SPEC[EncoderAreas[calls[c].k]].name].m,
                                 EntryAt(calls[c]).name),
                             engines[EngineOf(c)].lang)} :
          /\ calls' = [calls EXCEPT ![c].tab.acc = EncodeJoin(@, r), ![c].tab.i = @ + 1,
                                    ![c].mid = @ \/ calls[3 - c].tab.open]
          /\ engines' = IF r.lang # engines[EngineOf(c)].lang
                        THEN [engines EXCEPT ![EngineOf(c)].lang = r.lang,
                                             ![EngineOf(c)].writer = c]
                        ELSE engines
    /\ UNCHANGED <<oem, fn, pkvars, cvars>>

\* The end of encode_info_table (the padding, the length, the sum, then
\* self.lang = None; self.msgprefix = None) and "ret += area_data" of the
\* caller.
PairEncodeClose(c) ==
    /\ calls[c].kind = "encode"
    /\ calls[c].tab.open
    /\ ~EntriesLeft(calls[c])
    /\ calls' = [calls EXCEPT ![c].tab = NoTable,
                              ![c].st = PlaceArea(@, EncoderAreas[calls[c].k],
                                                  InfoTableClose(calls[c].tab.acc)),
                              ![c].k = @ + 1]
    /\ engines' = IF InfoTableClose(calls[c].tab.acc).exc = ""
                  THEN [engines EXCEPT ![EngineOf(c)] = [EngineNew EXCEPT !.writer = c]]
                  ELSE engines
    /\ UNCHANGED <<oem, fn, pkvars, cvars>>

\* The check sum of the header and the return of Encoder.encode.
PairEncodeReturn(c) ==
    /\ calls[c].kind = "encode"
    /\ calls[c].pc = "areas"
    /\ ~calls[c].tab.open
    /\ ~InAreas(calls[c])
    /\ calls' = [calls EXCEPT ![c].pc = "done", ![c].out = EncodeReturn(calls[c].st)]
    /\ UNCHANGED <<engines, oem, fn, pkvars, cvars>>

PairNext ==
    \/ \E c \in 1..2 : PairDecodeHeader(c)
    \/ \E c \in 1..2 : PairDecodeArea(c)
    \/ \E c \in 1..2 : PairTableOpen(c)
    \/ \E c \in 1..2 : PairDecodeEntry(c)
    \/ \E c \in 1..2 : PairTableClose(c)
    \/ \E c \in 1..2 : PairDecodeTrailer(c)
    \/ \E c \in 1..2 : PairEncodeHeader(c)
    \/ \E c \in 1..2 : PairEncodeArea(c)
    \/ \E c \in 1..2 : PairEncodeOpen(c)
    \/ \E c \in 1..2 : PairEncodeEntry(c)
    \/ \E c \in 1..2 : PairEncodeClose(c)
    \/ \E c \in 1..2 : PairEncodeReturn(c)

SpecPair == PairInit /\ [][PairNext]_vars

\* Whether call cl has returned or raised.
Finished(cl) ==
    IF cl.kind = "decode" THEN cl.d.pc \in {"done", "failed"} ELSE cl.pc = "done"

\* C17: of two decode calls, or two encode calls, that take turns at every
\* step on inputs of their own, each returns or raises what it does when it
\* runs alone, and while a call is inside a table the language and the
\* message prefix it reads were written by that call.
C17_InterleavedCallsAsAlone ==
    \A c \in DOMAIN calls :
        /\ (calls[c].kind = "decode" /\ Finished(calls[c]))
              => calls[c].d = decode(calls[c].policy, calls[c].data)
        /\ (calls[c].kind = "encode" /\ Finished(calls[c]))
              => calls[c].out = encode(calls[c].cfg)
        /\ calls[c].tab.open
              => /\ engines[EngineOf(c)].writer = c
                 /\ engines[EngineOf(c)].msgprefix = FRU_SPEC[EntryTable(calls[c])].name

\* C17 witness: two decode calls have ended, each having decoded entries
\* while the other was inside a table, one with a board in a language that
\* is not English and one with an English board.
C17_Witness ==
    /\ DOMAIN calls = 1..2
    /\ \A c \in 1..2 : calls[c].kind = "decode" /\ calls[c].d.pc = "done" /\ calls[c].mid
    /\ "board" \in DOMAIN calls[1].d.ret
    /\ "board" \in DOMAIN calls[2].d.ret
    /\ calls[1].d.ret["board"].m["lang"] = IntV(1)
    /\ calls[2].d.ret["board"].m["lang"] = IntV(0)

(***************************************************************************)
(* The date field alone: a number of minutes is encoded by                 *)
(* Encoder.encode_date, the bytes are decoded by Decoder.decode_date.      *)
(***************************************************************************)
\* How far around each edge the minute offsets go.
DateEdge == 8

\* Offsets around 0, around the carry into the second and the third byte,
\* and around the end of the 24 bits.
DateOffsets ==
    UNION {(e - DateEdge)..(e + DateEdge) : e \in {0, Pow2(8), Pow2(16), Pow2(24)}}

DateInit ==
    /\ \E m \in DateOffsets : fn = [NoFn EXCEPT !.f = "date", !.pc = "input", !.input = IntV(m)]
    /\ oem = NoOem
    /\ calls = NoCalls
    /\ engines = NoEngines
    /\ OthersIdle

\* self.entry_encoders[Date](entry, m) inside the board table
DateEncode ==
    /\ fn.f = "date"
    /\ fn.pc = "input"
    /\ fn' = [fn EXCEPT !.pc = "encoded",
                        !.enc = encode_date("board", Date("date"), fn.input, 0)]
    /\ UNCHANGED <<oem, calls, engines, pkvars, cvars>>

\* self.entry_decoders[Date](entry, data) on the bytes encode_date returned
DateDecode ==
    /\ fn.f = "date"
    /\ fn.pc = "encoded"
    /\ fn.enc.exc = ""
    /\ fn' = [fn EXCEPT !.pc = "decoded",
                        !.dec = decode_date("board", Date("date"), fn.enc.bytes, 0, 0)]
    /\ UNCHANGED <<oem, calls, engines, pkvars, cvars>>

DateNext == DateEncode \/ DateDecode

SpecDate == DateInit /\ [][DateNext]_vars

\* C29: encode_date accepts a number of minutes m exactly when
\* 0 <= m < 2^24, and fails with EncoderError and no bytes otherwise; it
\* writes m as 3 bytes, the least significant first, and decode_date gives
\* for these bytes the instant m minutes after the epoch, having consumed 3
\* bytes.
C29_DateMinutesRoundTrip ==
    /\ (fn.f = "date" /\ fn.pc \in {"encoded", "decoded"}) =>
          /\ (fn.enc.exc = "") <=> (fn.input.n >= 0 /\ fn.input.n < 16777216)
          /\ fn.enc.exc # "" => (fn.enc.exc = "EncoderError" /\ fn.enc.bytes = <<>>)
          /\ fn.enc.exc = "" =>
                /\ Len(fn.enc.bytes) = 3
                /\ \A i \in 1..3 : fn.enc.bytes[i] \in 0..255
                /\ fn.enc.bytes[1] + 256 * fn.enc.bytes[2] + 65536 * fn.enc.bytes[3] = fn.input.n
    /\ (fn.f = "date" /\ fn.pc = "decoded") =>
          /\ fn.dec.exc = ""
          /\ fn.dec.l = 3
          /\ fn.dec.v = DateV(FRU_EPOCH_SEC + 60 * fn.input.n)

\* C29 witness: an offset that fills the second and the third byte came
\* back from the decoder.
C29_Witness ==
    /\ fn.f = "date"
    /\ fn.pc = "decoded"
    /\ fn.input.n > 65536
    /\ fn.enc.bytes[2] # 0
    /\ fn.enc.bytes[3] # 0

(***************************************************************************)
(* BCD+ alone: a payload is decoded by StrDecoders.bcd, the string is      *)
(* encoded by StrEncoders.bcd.                                             *)
(***************************************************************************)
MaxBcdLen == 2

\* Bytes with every nibble 0..15 in the high and in the low half.
BcdBytes == {17 * k : k \in 0..15}

BcdPayloads == SeqsUpTo(BcdBytes, MaxBcdLen)

\* The strings StrDecoders.bcd returns for the payloads.
BcdStrings == {StrDecoders_bcd(q) : q \in BcdPayloads}

BcdInit ==
    /\ \E p \in BcdPayloads : fn = [NoFn EXCEPT !.f = "bcd", !.pc = "input", !.input = p]
    /\ oem = NoOem
    /\ calls = NoCalls
    /\ engines = NoEngines
    /\ OthersIdle

\* StrDecoders.bcd(data)
BcdDecode ==
    /\ fn.f = "bcd"
    /\ fn.pc = "input"
    /\ fn' = [fn EXCEPT !.pc = "decoded", !.dec = StrDecoders_bcd(fn.input)]
    /\ UNCHANGED <<oem, calls, engines, pkvars, cvars>>

\* StrEncoders.bcd(text) for the text the decoder returned
BcdEncode ==
    /\ fn.f = "bcd"
    /\ fn.pc = "decoded"
    /\ fn' = [fn EXCEPT !.pc = "encoded", !.enc = StrEncode("bcd", fn.dec.s)]
    /\ UNCHANGED <<oem, calls, engines, pkvars, cvars>>

BcdNext == BcdDecode \/ BcdEncode

SpecBcd == BcdInit /\ [][BcdNext]_vars

\* C30: BCD+ is lossless: the string StrDecoders.bcd returns for a payload
\* has two characters a byte, different payloads decode to different strings
\* (there are as many strings as payloads), and StrEncoders.bcd gives for
\* the string type 1 and the bytes of the payload.
C30_BcdLossless ==
    /\ (fn.f = "bcd" /\ fn.pc \in {"decoded", "encoded"}) =>
          /\ fn.dec.cls = "BcdString"
          /\ Len(fn.dec.s) = 2 * Len(fn.input)
          /\ fn.dec \in BcdStrings
          /\ Cardinality(BcdStrings) = Cardinality(BcdPayloads)
    /\ (fn.f = "bcd" /\ fn.pc = "encoded") =>
          /\ fn.enc.ok
          /\ fn.enc.t = 1
          /\ fn.enc.bytes = fn.input

\* C30 witness: a payload with the nibbles 13 and 15, which no BCD+ digit
\* stands for, came back from the encoder.
C30_Witness ==
    /\ fn.f = "bcd"
    /\ fn.pc = "encoded"
    /\ fn.input = <<221, 255>>
    /\ fn.dec.s = <<9401, 9401, 9403, 9403>>

\* C22: a string field of an InfoTable that declares more bytes than are
\* left in its table makes decode fail with a DecoderError that names the
\* field: the library's decode returns no tree, and when it fails in that
\* table it is with DecoderError and the name of the field; decode of
\* fruit.py returns no tree either.
C22_RunawayFieldFails ==
    /\ (phase = "decoding" /\ defect.kind = "longstr" /\ dec.pc \in {"done", "failed"}) =>
          /\ dec.pc = "failed"
          /\ FailedAt(defect.area) =>
                /\ dec.exc = "DecoderError"
                /\ dec.field = FRU_SPEC[defect.area].entries[defect.n].name
    /\ (phase = "ldecoded" /\ defect.kind = "longstr") => ldec.exc # ""

\* encode(tree) returned or raised
EncodeEnded == phase \in {"encoded", "decoding"}

\* The value is a string that starts with 'hex:' and holds hex digits only.
IsHexBlob(v) ==
    v.t = "str" /\ Slice(nowhite(v.s), 0, 4) = HexPrefix /\ a2b_hex(From(nowhite(v.s), 4)).ok

\* The bytes a hex blob stands for.
HexBlobBytes(v) == a2b_hex(From(nowhite(v.s), 4)).bytes

\* The length of the bytes is a multiple of 8 and their second byte is
\* that length divided by 8.
BlobWellFormed(bytes) == Len(bytes) % 8 = 0 /\ (bytes # <<>> => Len(bytes) = 8 * bytes[2])

\* The areas of the tree, all of them before multi, are hex blobs.
BlobsBeforeMulti ==
    /\ config # EmptyMap
    /\ \A n \in DOMAIN config : n # "multi" /\ IsHexBlob(config[n])

\* C23: for a tree whose areas, any of internal, chassis, board and
\* product, are 'hex:' strings, encode returns bytes that hold the bytes of
\* each string as they are, at the offset its header byte gives, when the
\* length of each is a multiple of 8 and its second byte is length/8, and
\* raises EncoderError otherwise.
C23_HexBlobForAnyArea ==
    (EncodeEnded /\ BlobsBeforeMulti) =>
        IF \A n \in DOMAIN config : BlobWellFormed(HexBlobBytes(config[n]))
        THEN /\ res.exc = ""
             /\ \A a \in 1..Len(FRU_SPEC) :
                   (FRU_SPEC[a].name \in DOMAIN config
                        /\ HexBlobBytes(config[FRU_SPEC[a].name]) # <<>>)
                   => /\ res.bytes[a] # 0
                      /\ Slice(res.bytes, AreaOff(res.bytes, a),
                               AreaOff(res.bytes, a)
                                    + Len(HexBlobBytes(config[FRU_SPEC[a].name])))
                            = HexBlobBytes(config[FRU_SPEC[a].name])
        ELSE res.exc = "EncoderError"

\* The string value of chassis.partno in the tree, when the tree is a
\* chassis with the fields type and partno only.
PartnoTree == DOMAIN config = {"chassis"} /\ config["chassis"].t = "dict"
              /\ DOMAIN config["chassis"].m = {"type", "partno"}

\* The type and the payload bytes the encoding of a string value gives (a
\* chassis table has no language byte).
PayloadOf(v) == StrEncode(StrEncoding(v, LangNone), StrText(v))

\* Where the partno field starts in the bytes of a tree with a chassis only
\* (1-based): after the 8 bytes of the header and the version, length and
\* type bytes of the table.
PartnoAt == Len(FRU_SPEC) + 1 + 3 + 1

\* C24: a string field in the bytes encode returns starts with a byte whose
\* upper two bits are the type of the encoding and whose lower six bits are
\* the number of payload bytes that follow, at most 63: checked on the
\* partno field of a chassis given as tagged hexadecimal text of 63 and of
\* 64 bytes.
C24_TypeLengthByte ==
    (Encoded /\ PartnoTree) =>
        /\ res.bytes[PartnoAt] \div 64 = PayloadOf(config["chassis"].m["partno"]).t
        /\ res.bytes[PartnoAt] % 64 = Len(PayloadOf(config["chassis"].m["partno"]).bytes)
        /\ Slice(res.bytes, PartnoAt, PartnoAt + (res.bytes[PartnoAt] % 64))
              = PayloadOf(config["chassis"].m["partno"]).bytes

\* C25: encode returns bytes for a tree whose multi area is a hex blob that
\* is not empty, whichever of the areas internal, chassis, board and
\* product the tree has besides.
C25_MultiBlobEncodes ==
    (EncodeEnded /\ "multi" \in DOMAIN config /\ IsHexBlob(config["multi"])
        /\ HexBlobBytes(config["multi"]) # <<>>)
    => res.exc = ""

\* The tree has a list as the value of a field of kind byte, date or string.
ListForScalar(tree) ==
    \E a \in 1..Len(FRU_SPEC) :
        /\ FRU_SPEC[a].kind = "InfoTable"
        /\ FRU_SPEC[a].name \in DOMAIN tree
        /\ tree[FRU_SPEC[a].name].t = "dict"
        /\ \E e \in 1..Len(FRU_SPEC[a].entries) :
              /\ FRU_SPEC[a].entries[e].kind # "OemStrList"
              /\ FRU_SPEC[a].entries[e].name \in DOMAIN tree[FRU_SPEC[a].name].m
              /\ tree[FRU_SPEC[a].name].m[FRU_SPEC[a].entries[e].name].t = "list"

\* C26: encode of a tree with a list as the value of a byte, date or string
\* field raises EncoderError and returns no bytes.
C26_ListForScalarFails ==
    (EncodeEnded /\ dec1.pc = "idle" /\ ListForScalar(config)) =>
        res.exc = "EncoderError" /\ res.bytes = <<>>

\* The tree has an entry for the area and the entry is not empty.
AreaGiven(tree, name) == name \in DOMAIN tree /\ AreaLen(tree[name]) # 0

\* The tree has for the area an entry that holds bytes: a table, or a hex
\* string with at least one byte.
AreaHoldsBytes(tree, name) ==
    /\ AreaGiven(tree, name)
    /\ IsHexBlob(tree[name]) => HexBlobBytes(tree[name]) # <<>>

\* The areas with an offset in buffer b lie one after the other in the
\* order of FRU_SPEC: the first right after the header, each next one where
\* the one before ends by its own length, the last one up to the end of b.
LaidOutInOrder(b) ==
    /\ Emitted(b) = {} => Len(b) = Len(FRU_SPEC) + 1
    /\ \A a \in Emitted(b) :
          /\ (\A x \in Emitted(b) : x >= a) => AreaOff(b, a) = Len(FRU_SPEC) + 1
          /\ (\A x \in Emitted(b) : x <= a)
                => AreaOff(b, a) + Len(DeclaredSpan(b, a)) = Len(b)
          /\ \A x \in Emitted(b) :
                (x > a /\ \A y \in Emitted(b) : ~(a < y /\ y < x))
                    => AreaOff(b, x) = AreaOff(b, a) + Len(DeclaredSpan(b, a))

\* C21 as stated: in the bytes encode returns, the offset byte of an area
\* is 0 exactly when the tree has no entry or an empty entry for it, and
\* the areas with an offset lie one after the other in the order internal,
\* chassis, board, product, multi from the end of the 8-byte header on (a
\* tree is a function from area names to values: it has no key order).
C21_OffsetTableMatchesLayout ==
    Encoded =>
        /\ \A a \in 1..Len(FRU_SPEC) :
              IsAreaOffset(FRU_SPEC[a])
                  => (res.bytes[a] = 0 <=> ~AreaGiven(config, FRU_SPEC[a].name))
        /\ LaidOutInOrder(res.bytes)

\* C21 amended: the offset byte of an area is 0 exactly when the tree has no
\* entry for it, an empty entry, or a hex string that holds no bytes; the
\* rest as stated.
C21_OffsetZeroIffNoBytes ==
    Encoded =>
        /\ \A a \in 1..Len(FRU_SPEC) :
              IsAreaOffset(FRU_SPEC[a])
                  => (res.bytes[a] = 0 <=> ~AreaHoldsBytes(config, FRU_SPEC[a].name))
        /\ LaidOutInOrder(res.bytes)

\* C21 witness: encode returned the bytes of a tree with a chassis and a
\* product and no board: chassis right after the header, offset 0 for the
\* board, product where the chassis ends.
C21_Witness ==
    /\ Encoded
    /\ DOMAIN config = {"chassis", "product"}
    /\ res.bytes[3] = 1
    /\ res.bytes[4] = 0
    /\ res.bytes[5] = 1 + res.bytes[AreaOff(res.bytes, 3) + 2]

\* The number of bytes the entry of the given kind takes at b[pos] (1-based).
EntryWidth(b, pos, kind) ==
    IF kind \in {"ChassisType", "Lang"} THEN 1
    ELSE IF kind = "Date" THEN 3
    ELSE 1 + (b[pos] % 64)

\* Where entry e of a table starts in b (1-based), given that entry i
\* starts at pos.
RECURSIVE WalkTo(_, _, _, _, _)
WalkTo(b, pos, entries, i, e) ==
    IF i = e THEN pos
    ELSE WalkTo(b, pos + EntryWidth(b, pos, entries[i].kind), entries, i + 1, e)

\* Where entry e of the table of area a starts in b (1-based): the entries
\* follow the version and length bytes of the table.
EntryStart(b, a, e) == WalkTo(b, AreaOff(b, a) + 3, FRU_SPEC[a].entries, 1, e)

\* Where item j of a list of strings that starts at pos starts in b.
RECURSIVE ItemStart(_, _, _)
ItemStart(b, pos, j) ==
    IF j = 1 THEN pos ELSE ItemStart(b, pos + EntryWidth(b, pos, "U16Str"), j - 1)

\* The language a table's language byte sets for the entries after it: the
\* value of the Lang entry that comes before entry e, 0 when the tree gives
\* none, and no language when no Lang entry comes before e.
LangBefore(spec, m, e) ==
    IF \E i \in 1..(e - 1) : spec.entries[i].kind = "Lang"
    THEN IF "lang" \in DOMAIN m THEN m["lang"].n ELSE 0
    ELSE LangNone

\* The encoding C28 states for a value without an encoding tag.
StatedEncoding(use_lang, lang) ==
    IF use_lang /\ lang \notin {LangNone, 0, 25} THEN "ucs2le" ELSE "latin1"

\* The bytes of a string field of type 3 with the text in the encoding.
StatedField(enc, text) ==
    <<192 + Len(StrEncode(enc, text).bytes)>> \o StrEncode(enc, text).bytes

\* The string field at b[pos] is the field.
FieldAt(b, pos, field) == Slice(b, pos - 1, pos - 1 + Len(field)) = field

\* The tables of the tree whose fields precede every string: a dictionary
\* for the area, a language that is a byte.
TablesOf(tree) ==
    {a \in 1..Len(FRU_SPEC) :
        /\ FRU_SPEC[a].kind = "InfoTable"
        /\ AreaGiven(tree, FRU_SPEC[a].name)
        /\ tree[FRU_SPEC[a].name].t = "dict"}

Untagged(v) == v.t \in {"str", "int"} /\ ~IsTagged(v)

\* C28: a string value without an encoding tag is in the bytes encode
\* returns as 16-bit text (ucs2le) when its field is language-dependent and
\* the language byte before it in the same table is neither 0 nor 25, and
\* as 8-bit text (latin1) otherwise: fields that are not language-dependent,
\* tables without a language byte, language 0 or 25.  The items of an OEM
\* list are language-dependent.
C28_UntaggedEncodingByLang ==
    Encoded =>
        \A a \in TablesOf(config) :
            \A e \in 1..Len(FRU_SPEC[a].entries) :
                /\ (/\ FRU_SPEC[a].entries[e].kind \in {"L1Str", "U16Str"}
                    /\ FRU_SPEC[a].entries[e].name \in DOMAIN config[FRU_SPEC[a].name].m
                    /\ Untagged(config[FRU_SPEC[a].name].m[FRU_SPEC[a].entries[e].name]))
                   => FieldAt(res.bytes, EntryStart(res.bytes, a, e),
                              StatedField(
                                  StatedEncoding(FRU_SPEC[a].entries[e].use_lang,
                                      LangBefore(FRU_SPEC[a], config[FRU_SPEC[a].name].m, e)),
                                  StrText(config[FRU_SPEC[a].name].m[FRU_SPEC[a].entries[e].name])))
                /\ (/\ FRU_SPEC[a].entries[e].kind = "OemStrList"
                    /\ FRU_SPEC[a].entries[e].name \in DOMAIN config[FRU_SPEC[a].name].m
                    /\ config[FRU_SPEC[a].name].m[FRU_SPEC[a].entries[e].name].t = "list")
                   => \A j \in 1..Len(config[FRU_SPEC[a].name].m[FRU_SPEC[a].entries[e].name].items) :
                        Untagged(config[FRU_SPEC[a].name].m[FRU_SPEC[a].entries[e].name].items[j])
                        => FieldAt(res.bytes,
                                   ItemStart(res.bytes, EntryStart(res.bytes, a, e), j),
                                   StatedField(
                                       StatedEncoding(TRUE,
                                           LangBefore(FRU_SPEC[a], config[FRU_SPEC[a].name].m, e)),
                                       StrText(config[FRU_SPEC[a].name].m[FRU_SPEC[a].entries[e].name].items[j])))

\* C28 witness: encode returned the bytes of a board of language 1 with
\* untagged strings: the manufacturer, language-dependent, as 16-bit text,
\* the serial number, not language-dependent, as 8-bit text.
C28_Witness ==
    /\ Encoded
    /\ "board" \in DOMAIN config
    /\ config["board"] = BoardForeign
    /\ FieldAt(res.bytes, EntryStart(res.bytes, 4, 3), <<196, 233, 0, 81, 1>>)
    /\ FieldAt(res.bytes, EntryStart(res.bytes, 4, 5), <<194, 83, 49>>)

\* The string was decoded as 16-bit text: the classes StrDecoders.u16bytes
\* returns.
As16Bit(v) == v.cls \in {"ProperU16String", "MisusedLatin1String"}

\* The string was decoded as 8-bit text: the class StrDecoders.l1bytes
\* returns.
As8Bit(v) == v.cls = "ProperLatin1String"

\* The language of a decoded table, or of the part of it decoded so far:
\* the value of its language byte, 0 for a table that has none yet.
TableLang(out) == IF "lang" \in DOMAIN out THEN out["lang"].n ELSE 0

\* The 8-bit and 16-bit strings and OEM items among the decoded entries out
\* of table spec were decoded by the language of that table: as 16-bit text
\* the items and the strings of language-dependent fields when the
\* language is neither 0 nor 25, as 8-bit text all others.
DecodedByTableLang(spec, out) ==
    \A e \in 1..Len(spec.entries) :
        spec.entries[e].name \in DOMAIN out =>
            /\ (spec.entries[e].kind \in {"L1Str", "U16Str"}
                    /\ (As8Bit(out[spec.entries[e].name]) \/ As16Bit(out[spec.entries[e].name])))
               => (As16Bit(out[spec.entries[e].name])
                      <=> (spec.entries[e].use_lang /\ TableLang(out) \notin {0, 25}))
            /\ spec.entries[e].kind = "OemStrList"
               => \A j \in 1..Len(out[spec.entries[e].name].items) :
                     (As8Bit(out[spec.entries[e].name].items[j])
                         \/ As16Bit(out[spec.entries[e].name].items[j]))
                     => (As16Bit(out[spec.entries[e].name].items[j])
                            <=> TableLang(out) \notin {0, 25})

\* C27: while a decode call is inside a table, the language of the decoder
\* is the value of the language byte decoded in this table, and 0 before
\* that; the strings and OEM items decoded so far in this table, and those
\* of every table the call has returned, were decoded by the language of
\* their own table.
C27_LanguageLocalToTable ==
    \A c \in DOMAIN calls :
        calls[c].kind = "decode" =>
            /\ (calls[c].tab.open /\ calls[c].tab.acc.exc = "")
                  => /\ engines[EngineOf(c)].lang = TableLang(calls[c].tab.acc.out)
                     /\ DecodedByTableLang(FRU_SPEC[EntryTable(calls[c])], calls[c].tab.acc.out)
            /\ \A a \in 1..Len(FRU_SPEC) :
                  (FRU_SPEC[a].kind = "InfoTable" /\ FRU_SPEC[a].name \in DOMAIN calls[c].d.ret)
                  => DecodedByTableLang(FRU_SPEC[a], calls[c].d.ret[FRU_SPEC[a].name].m)

\* C27 witness: a decode call is at the end of the product table of bytes
\* whose board has language 1 and a manufacturer decoded as 16-bit text:
\* the name and the OEM item of the product, of language 0, were decoded as
\* 8-bit text.
C27_Witness ==
    \E c \in DOMAIN calls :
        /\ calls[c].kind = "decode"
        /\ "board" \in DOMAIN calls[c].d.ret
        /\ calls[c].d.ret["board"].m["lang"] = IntV(1)
        /\ As16Bit(calls[c].d.ret["board"].m["manufacturer"])
        /\ calls[c].tab.open
        /\ EntryTable(calls[c]) = 5
        /\ DOMAIN calls[c].tab.acc.out = {"lang", "manufacturer", "name", "model", "version",
                                          "serial", "asset", "fru", "oem"}
        /\ calls[c].tab.acc.out["lang"] = IntV(0)
        /\ calls[c].tab.acc.out["name"] = StrV("ProperLatin1String", <<78, 49>>)
        /\ calls[c].tab.acc.out["oem"].items = <<StrV("ProperLatin1String", <<65, 66>>)>>

====
